---------------------------- MODULE Spec2Model ----------------------------
(***************************************************************************)
(* A model of rcs-parser: the nom-based parser of RCS comma-v files.       *)
(*                                                                         *)
(* Text is a sequence of one-character strings.  A parser is an operator   *)
(* from the remaining input to a result record:                            *)
(*   [kind |-> "Ok", rest |-> remaining input, val |-> value]              *)
(*   [kind |-> "Err", errors |-> list of [input, code] entries]            *)
(*       (nom's Err::Error(VerboseError), innermost entry first)           *)
(*   [kind |-> "Panic"]  (a Rust panic: unwrap() on None or on Err)        *)
(***************************************************************************)
EXTENDS Integers, Sequences, FiniteSets, TLC

VARIABLES
    doc,        \* the blocks `input` is made of
    input,      \* the text handed to parse_rcs
    pc,         \* position inside parse_rcs
    rest,       \* `input` of parse_rcs: what is left to read
    rcsdata,    \* the RcsData under construction
    deltas,     \* Vec<Delta> returned by parse_deltas
    desc,       \* String returned by parse_desc
    deltatexts, \* Vec<DeltaText> returned by parse_deltatexts
    result,     \* what parse_rcs returned (or "Panic")
    numA,       \* operands and result of the Num operations
    numB,
    numOut,
    lexIn,      \* input and result of a single lexer call
    lexOut

vars == <<doc, input, pc, rest, rcsdata, deltas, desc, deltatexts, result,
          numA, numB, numOut, lexIn, lexOut>>

rcsVars == <<doc, input, pc, rest, rcsdata, deltas, desc, deltatexts, result>>
numVars == <<numA, numB, numOut>>
lexVars == <<lexIn, lexOut>>

-----------------------------------------------------------------------------
(* Characters *)

Digits == <<"0", "1", "2", "3", "4", "5", "6", "7", "8", "9">>

\* char::is_ascii_digit, as used by nom's digit1
is_digit(c) == \E i \in 1..10 : Digits[i] = c

\* char::to_digit(10) of a decimal digit
to_digit(c) == (CHOOSE i \in 1..10 : Digits[i] = c) - 1

\* The printable ASCII characters in code order: code 32 (space) to 95 (_),
\* and code 97 (a) to 126 (~).  Code 96, the grave accent, cannot be written
\* in a TLA+ string and is left out of the alphabet.
AsciiLow == <<" ", "!", "\"", "#", "$", "%", "&", "'", "(", ")", "*", "+", ",",
              "-", ".", "/", "0", "1", "2", "3", "4", "5", "6", "7", "8", "9",
              ":", ";", "<", "=", ">", "?", "@", "A", "B", "C", "D", "E", "F",
              "G", "H", "I", "J", "K", "L", "M", "N", "O", "P", "Q", "R", "S",
              "T", "U", "V", "W", "X", "Y", "Z", "[", "\\", "]", "^", "_">>
AsciiHigh == <<"a", "b", "c", "d", "e", "f", "g", "h", "i", "j", "k", "l", "m",
               "n", "o", "p", "q", "r", "s", "t", "u", "v", "w", "x", "y", "z",
               "{", "|", "}", "~">>

\* The characters of codes 0xA0 (no-break space) to 0xff in code order.
Latin1High == <<" ", "¡", "¢", "£", "¤", "¥", "¦", "§", "¨", "©", "ª", "«", "¬", "­", "®", "¯",
               "°", "±", "²", "³", "´", "µ", "¶", "·", "¸", "¹", "º", "»", "¼", "½", "¾", "¿",
               "À", "Á", "Â", "Ã", "Ä", "Å", "Æ", "Ç", "È", "É", "Ê", "Ë", "Ì", "Í", "Î", "Ï",
               "Ð", "Ñ", "Ò", "Ó", "Ô", "Õ", "Ö", "×", "Ø", "Ù", "Ú", "Û", "Ü", "Ý", "Þ", "ß",
               "à", "á", "â", "ã", "ä", "å", "æ", "ç", "è", "é", "ê", "ë", "ì", "í", "î", "ï",
               "ð", "ñ", "ò", "ó", "ô", "õ", "ö", "÷", "ø", "ù", "ú", "û", "ü", "ý", "þ", "ÿ">>

\* the characters of a table
CharsOf(table) == {table[i] : i \in 1..Len(table)}

is_special_chars(c) ==
    c = "$" \/ c = "," \/ c = "." \/ c = ":" \/ c = ";" \/ c = "@"

\* (0x21 as char) <= c && c <= (0x7e as char)
\*     || (0xA0 as char) <= c && c <= (0xff as char):
\* char's order is the order of the codes, so the first range holds the
\* characters of AsciiLow but the space (0x20) and those of AsciiHigh, the
\* second those of Latin1High; every other character (a control character,
\* 0x7f..0x9f, anything above 0xff) is in neither.
is_visible_char(c) ==
    \/ c \in (CharsOf(AsciiLow) \ {" "}) \cup CharsOf(AsciiHigh)
    \/ c \in CharsOf(Latin1High)

is_idchar(c) == is_visible_char(c) /\ ~is_special_chars(c)

\* nom's multispace: space, tab, carriage return, line feed
is_multispace(c) == c = " " \/ c = "\t" \/ c = "\r" \/ c = "\n"

\* nom's space: space, tab
is_space(c) == c = " " \/ c = "\t"

-----------------------------------------------------------------------------
(* u32: an unsigned 32-bit integer, held as its two 16-bit halves so that  *)
(* the whole range 0 .. 2^32-1 is representable.                           *)

HalfWord == 65536

\* the u32 of a small literal
u32(n) == [hi |-> n \div HalfWord, lo |-> n % HalfWord]

\* Ord for u32: -1 (Less), 0 (Equal), 1 (Greater)
u32_cmp(a, b) ==
    IF a.hi < b.hi THEN -1
    ELSE IF a.hi > b.hi THEN 1
    ELSE IF a.lo < b.lo THEN -1
    ELSE IF a.lo > b.lo THEN 1
    ELSE 0

\* acc.checked_mul(10)?.checked_add(d): [ok, v]; ok = FALSE is None (overflow)
u32_checked_push(acc, d) ==
    LET low  == acc.lo * 10 + d
        high == acc.hi * 10 + (low \div HalfWord)
    IN  IF high >= HalfWord
        THEN [ok |-> FALSE, v |-> acc]
        ELSE [ok |-> TRUE, v |-> [hi |-> high, lo |-> low % HalfWord]]

\* u32::from_str_radix(s, 10) for a non-empty run of decimal digits:
\* [ok |-> TRUE, v] is Ok(v), [ok |-> FALSE] is Err(PosOverflow).
RECURSIVE from_str_radix_from(_, _)
from_str_radix_from(s, acc) ==
    IF s = <<>> THEN [ok |-> TRUE, v |-> acc]
    ELSE LET step == u32_checked_push(acc, to_digit(Head(s)))
         IN  IF step.ok THEN from_str_radix_from(Tail(s), step.v)
             ELSE [ok |-> FALSE, v |-> acc]

from_str_radix(s) == from_str_radix_from(s, u32(0))

-----------------------------------------------------------------------------
(* Results and nom's error type *)

Ok(r, v) == [kind |-> "Ok", rest |-> r, val |-> v]
Panic == [kind |-> "Panic"]

\* VerboseErrorKind::Nom(kind) and VerboseErrorKind::Context(ctx)
Nom(kind) == <<"Nom", kind>>
Context(ctx) == <<"Context", ctx>>

\* Err(Err::Error(VerboseError::from_error_kind(i, kind)))
Error(i, kind) == [kind |-> "Err", errors |-> <<[input |-> i, code |-> Nom(kind)]>>]

IsOk(r) == r.kind = "Ok"
IsErr(r) == r.kind = "Err"
IsPanic(r) == r.kind = "Panic"

\* the `?` operator: the rest of the function, K, runs on a success; an
\* error is returned as it is and a panic unwinds
try(r, K(_)) == IF r.kind = "Ok" THEN K(r) ELSE r

\* input.slice(n..)
Drop(s, n) == SubSeq(s, n + 1, Len(s))
\* input.slice(..n)
Take(s, n) == SubSeq(s, 1, n)

\* the length of the longest prefix of s whose characters all satisfy P
RECURSIVE span(_, _)
span(P(_), s) ==
    IF s = <<>> \/ ~P(Head(s)) THEN 0 ELSE 1 + span(P, Tail(s))

StartsWith(s, t) == Len(s) >= Len(t) /\ Take(s, Len(t)) = t

-----------------------------------------------------------------------------
(* nom's primitive parsers (the `complete` versions) *)

\* bytes::complete::tag(t)
tag(t, i) ==
    IF StartsWith(i, t) THEN Ok(Drop(i, Len(t)), t) ELSE Error(i, "Tag")

\* character::complete::digit1
digit1(i) ==
    LET n == span(is_digit, i)
    IN  IF n = 0 THEN Error(i, "Digit") ELSE Ok(Drop(i, n), Take(i, n))

\* character::complete::multispace0
multispace0(i) ==
    LET n == span(is_multispace, i) IN Ok(Drop(i, n), Take(i, n))

\* character::complete::multispace1
multispace1(i) ==
    LET n == span(is_multispace, i)
    IN  IF n = 0 THEN Error(i, "MultiSpace") ELSE Ok(Drop(i, n), Take(i, n))

\* character::complete::space0
space0(i) ==
    LET n == span(is_space, i) IN Ok(Drop(i, n), Take(i, n))

\* character::complete::line_ending: "\n" or "\r\n"
line_ending(i) ==
    IF StartsWith(i, <<"\n">>) THEN Ok(Drop(i, 1), <<"\n">>)
    ELSE IF StartsWith(i, <<"\r", "\n">>) THEN Ok(Drop(i, 2), <<"\r", "\n">>)
    ELSE Error(i, "CrLf")

not_eol_char(c) == c # "\r" /\ c # "\n"

\* character::complete::not_line_ending: up to the first '\r' or '\n'; a
\* '\r' that does not start "\r\n" is an error
not_line_ending(i) ==
    LET n == span(not_eol_char, i)
    IN  IF n = Len(i) THEN Ok(<<>>, i)
        ELSE IF i[n + 1] = "\r" /\ ~StartsWith(Drop(i, n), <<"\r", "\n">>)
        THEN Error(i, "Tag")
        ELSE Ok(Drop(i, n), Take(i, n))

\* character::complete::one_of(list)
one_of(list, i) ==
    IF i # <<>> /\ \E k \in 1..Len(list) : list[k] = Head(i)
    THEN Ok(Tail(i), Head(i))
    ELSE Error(i, "OneOf")

not_at(c) == c # "@"

\* bytes::complete::is_not("@"): one or more characters other than '@'
is_not_at(i) ==
    LET n == span(not_at, i)
    IN  IF n = 0 THEN Error(i, "IsNot") ELSE Ok(Drop(i, n), Take(i, n))

\* bytes::complete::take_until("@"): up to, not including, the first '@'
take_until_at(i) ==
    LET n == span(not_at, i)
    IN  IF n = Len(i) THEN Error(i, "TakeUntil") ELSE Ok(Drop(i, n), Take(i, n))

\* bytes::complete::take_while1(pred)
take_while1(P(_), i) ==
    LET n == span(P, i)
    IN  IF n = 0 THEN Error(i, "TakeWhile1") ELSE Ok(Drop(i, n), Take(i, n))

-----------------------------------------------------------------------------
(* nom's combinators.  A parser argument F(_) maps the remaining input to  *)
(* a result.  Only Err::Error is recoverable; a panic unwinds through all. *)

\* error::context(ctx, f): on error, VerboseError::add_context pushes
\* (input, Context(ctx)) after the entries of f
context(ctx, F(_), i) ==
    LET r == F(i)
    IN  IF IsErr(r)
        THEN [r EXCEPT !.errors = Append(@, [input |-> i, code |-> Context(ctx)])]
        ELSE r

\* combinator::map(f, g)
map(F(_), G(_), i) ==
    try(F(i), LAMBDA r : Ok(r.rest, G(r.val)))

\* combinator::opt(f): Some(v) is <<v>>, None is <<>>
opt(F(_), i) ==
    LET r == F(i)
    IN  IF IsOk(r) THEN Ok(r.rest, <<r.val>>)
        ELSE IF IsErr(r) THEN Ok(i, <<>>)
        ELSE r

\* sequence::preceded(f, g)
preceded(F(_), G(_), i) ==
    try(F(i), LAMBDA r : G(r.rest))

\* sequence::terminated(f, g)
terminated(F(_), G(_), i) ==
    try(F(i), LAMBDA r :
    try(G(r.rest), LAMBDA q : Ok(q.rest, r.val)))

\* sequence::pair(f, g)
pair(F(_), G(_), i) ==
    try(F(i), LAMBDA r :
    try(G(r.rest), LAMBDA q : Ok(q.rest, <<r.val, q.val>>)))

\* sequence::delimited(f, g, h)
delimited(F(_), G(_), H(_), i) ==
    try(F(i), LAMBDA r :
    try(G(r.rest), LAMBDA q :
    try(H(q.rest), LAMBDA p : Ok(p.rest, q.val))))

\* sequence::separated_pair(f, sep, g)
separated_pair(F(_), S(_), G(_), i) ==
    try(F(i), LAMBDA r :
    try(S(r.rest), LAMBDA s :
    try(G(s.rest), LAMBDA q : Ok(q.rest, <<r.val, q.val>>))))

\* sequence::tuple((f, g, h))
tuple3(F(_), G(_), H(_), i) ==
    try(F(i), LAMBDA r :
    try(G(r.rest), LAMBDA q :
    try(H(q.rest), LAMBDA p : Ok(p.rest, <<r.val, q.val, p.val>>))))

\* branch::alt((f, g)): when both fail, VerboseError::or keeps g's error and
\* VerboseError::append pushes (input, Nom(Alt))
alt(F(_), G(_), i) ==
    LET r == F(i)
    IN  IF IsErr(r)
        THEN LET q == G(i)
             IN  IF IsErr(q)
                 THEN [q EXCEPT !.errors = Append(@, [input |-> i, code |-> Nom("Alt")])]
                 ELSE q
        ELSE r

\* multi::many0(f): repeats f until it fails with Err::Error; an f that
\* succeeds without consuming is the error Many0
RECURSIVE many0_from(_, _, _)
many0_from(F(_), i, acc) ==
    LET r == F(i)
    IN  IF IsErr(r) THEN Ok(i, acc)
        ELSE IF IsPanic(r) THEN r
        ELSE IF Len(r.rest) = Len(i) THEN Error(i, "Many0")
        ELSE many0_from(F, r.rest, Append(acc, r.val))

many0(F(_), i) == many0_from(F, i, <<>>)

\* multi::separated_list1(sep, f): the loop after the first element
RECURSIVE separated_list1_from(_, _, _, _)
separated_list1_from(S(_), F(_), i, acc) ==
    LET s == S(i)
    IN  IF IsErr(s) THEN Ok(i, acc)
        ELSE IF IsPanic(s) THEN s
        ELSE IF Len(s.rest) = Len(i) THEN Error(s.rest, "SeparatedList")
        ELSE LET r == F(s.rest)
             IN  IF IsErr(r) THEN Ok(i, acc)
                 ELSE IF IsPanic(r) THEN r
                 ELSE separated_list1_from(S, F, r.rest, Append(acc, r.val))

\* multi::separated_list1(sep, f)
separated_list1(S(_), F(_), i) ==
    try(F(i), LAMBDA r : separated_list1_from(S, F, r.rest, <<r.val>>))

-----------------------------------------------------------------------------
(* Num: a revision number, Num { numbers: Vec<u32> } *)

Num(numbers) == [numbers |-> numbers]

\* the num! macro for small literals
num(ns) == Num([k \in 1..Len(ns) |-> u32(ns[k])])

\* <[u32] as Ord>::cmp: the first differing element decides; when one slice
\* is a prefix of the other the lengths decide
RECURSIVE slice_cmp(_, _)
slice_cmp(a, b) ==
    IF a = <<>> /\ b = <<>> THEN 0
    ELSE IF a = <<>> THEN -1
    ELSE IF b = <<>> THEN 1
    ELSE LET c == u32_cmp(Head(a), Head(b))
         IN  IF c # 0 THEN c ELSE slice_cmp(Tail(a), Tail(b))

\* A faulty order, shorter before longer whatever the elements: C8 must
\* tell it from the derived order
Num_cmp_shortlex(a, b) ==
    IF Len(a.numbers) < Len(b.numbers) THEN -1
    ELSE IF Len(a.numbers) > Len(b.numbers) THEN 1
    ELSE slice_cmp(a.numbers, b.numbers)

\* #[derive(PartialOrd, Ord)] on Num: the order of its only field
Num_cmp(a, b) == slice_cmp(a.numbers, b.numbers)

\* A faulty is_branch, true of the even lengths: C10 must tell it from
\* Num::is_branch
is_branch_even(self) == Len(self.numbers) % 2 = 0

\* Num::is_branch
is_branch(self) == Len(self.numbers) % 2 = 1

\* Num::is_revision
is_revision(self) == ~is_branch(self)

\* A faulty get_branching_point that drops one element whatever the length:
\* C11 must tell it from Num::get_branching_point
get_branching_point_drop_one(self) ==
    IF Len(self.numbers) < 1 THEN Panic
    ELSE Num(Take(self.numbers, Len(self.numbers) - 1))

\* A faulty get_branching_point that cuts with saturating_sub, so that the
\* empty Num answers the empty Num: C29 must tell it from
\* Num::get_branching_point
get_branching_point_saturating(self) ==
    IF is_branch(self) THEN Num(Take(self.numbers, Len(self.numbers) - 1))
    ELSE IF Len(self.numbers) < 2 THEN Num(<<>>)
         ELSE Num(Take(self.numbers, Len(self.numbers) - 2))

\* Num::get_branching_point: self.numbers[0..len - 1] of a branch,
\* self.numbers[0..len - 2] of a revision; len - 2 underflows (a panic) for
\* the empty Num, the only revision shorter than 2
get_branching_point(self) ==
    IF is_branch(self)
    THEN Num(Take(self.numbers, Len(self.numbers) - 1))
    ELSE IF Len(self.numbers) < 2 THEN Panic
         ELSE Num(Take(self.numbers, Len(self.numbers) - 2))

\* the loop of get_branching_points: while i < self.numbers.len()
RECURSIVE get_branching_points_from(_, _, _)
get_branching_points_from(self, i, points) ==
    IF i < Len(self.numbers)
    THEN get_branching_points_from(self, i + 2, Append(points, Num(Take(self.numbers, i))))
    ELSE points

\* A faulty get_branching_points whose loop also takes the prefix of the
\* full length: C12 must tell it from Num::get_branching_points
get_branching_points_inclusive(self) ==
    [k \in 1..(Len(self.numbers) \div 2) |-> Num(Take(self.numbers, 2 * k))]

\* Num::get_branching_points
get_branching_points(self) == get_branching_points_from(self, 2, <<>>)

-----------------------------------------------------------------------------
(* parsers/num.rs *)

\* map(digit1, |d| u32::from_str_radix(d, 10).unwrap()): unwrap panics when
\* the digits denote a value above u32::MAX
u32_unwrap(rest_, n) == IF n.ok THEN Ok(rest_, n.v) ELSE Panic

u32_digits(i) ==
    try(digit1(i), LAMBDA r : u32_unwrap(r.rest, from_str_radix(r.val)))

\* A faulty separator that is matched by a space too: C18 must tell it from
\* dot
dot_or_space(i) ==
    IF StartsWith(i, <<" ">>) THEN Ok(Drop(i, 1), <<" ">>) ELSE tag(<<".">>, i)

\* tag(".")
dot(i) == tag(<<".">>, i)

num_list(i) == separated_list1(dot, u32_digits, i)

num_of_list(i) == map(num_list, Num, i)

\* A faulty parse_num that puts its rule name in front of the entries of
\* the failure inside it: C22 must tell it from parse_num
parse_num_context_first(i) ==
    IF IsErr(num_of_list(i))
    THEN [num_of_list(i) EXCEPT
             !.errors = <<[input |-> i, code |-> Context("Num")]>> \o @]
    ELSE num_of_list(i)

\* context("Num", map(separated_list1(...), |numbers| Num { numbers }))
parse_num(i) == context("Num", num_of_list, i)

-----------------------------------------------------------------------------
(* parsers/chars.rs *)

parse_sym_chars(i) == take_while1(is_idchar, i)

parse_sym(i) == context("sym", parse_sym_chars, i)

is_idchar_or_dot(c) == is_idchar(c) \/ c = "."

parse_id_chars(i) == take_while1(is_idchar_or_dot, i)

parse_id(i) == context("id", parse_id_chars, i)

-----------------------------------------------------------------------------
(* parsers/string.rs *)

at(i) == tag(<<"@">>, i)

\* A faulty escaped_at that hands "@@" on as it is written: C13 must tell
\* it from the unescaping one
escaped_at_kept(i) == tag(<<"@", "@">>, i)

\* map(tag("@@"), |_| "@")
escaped_at(i) ==
    try(tag(<<"@", "@">>, i), LAMBDA r : Ok(r.rest, <<"@">>))

string_fragment(i) == alt(is_not_at, escaped_at, i)

\* v.concat()
RECURSIVE concat(_)
concat(v) == IF v = <<>> THEN <<>> ELSE Head(v) \o concat(Tail(v))

string_fragments(i) == many0(string_fragment, i)

string_body(i) == map(string_fragments, concat, i)

\* A faulty string_delimited that takes the end of the input for the
\* closing '@': C14 must tell it from the one that requires it
string_delimited_open(i) ==
    try(at(i), LAMBDA r :
    try(string_body(r.rest), LAMBDA q :
        IF q.rest = <<>> THEN Ok(q.rest, q.val) ELSE try(at(q.rest), LAMBDA p : Ok(p.rest, q.val))))

string_delimited(i) == delimited(at, string_body, at, i)

parse_string(i) == context("string", string_delimited, i)

intstring_delimited(i) == delimited(at, take_until_at, at, i)

parse_intstring(i) == context("intstring", intstring_delimited, i)

-----------------------------------------------------------------------------
(* parsers/diff.rs *)

Add(position, lines) == [tag |-> "Add", position |-> position, lines |-> lines]
Delete(position, count) == [tag |-> "Delete", position |-> position, count |-> count]

u32_is_zero(a) == a.hi = 0 /\ a.lo = 0

\* a - 1 for a > 0
u32_pred(a) ==
    IF a.lo > 0 THEN [hi |-> a.hi, lo |-> a.lo - 1]
    ELSE [hi |-> a.hi - 1, lo |-> HalfWord - 1]

diff_line_terminated(i) == terminated(not_line_ending, line_ending, i)

\* parse_diff_line: one line, without its line ending and without unescaping
parse_diff_line(i) == context("Diff", diff_line_terminated, i)

\* parse_diff_lines: the loop `for _ in 1..=line_count`, `left` passes to go
RECURSIVE parse_diff_lines_from(_, _, _)
parse_diff_lines_from(i, left, lines) ==
    IF u32_is_zero(left) THEN Ok(i, lines)
    ELSE LET r == parse_diff_line(i)
         IN  IF IsOk(r)
             THEN parse_diff_lines_from(r.rest, u32_pred(left), Append(lines, r.val))
             ELSE r

parse_diff_lines(i, line_count) == parse_diff_lines_from(i, line_count, <<>>)

\* A faulty opcode parser that takes 'c' as well: C17 must tell it from
\* diff_opcode
diff_opcode_with_change(i) == one_of(<<"a", "d", "c">>, i)

\* one_of("ad")
diff_opcode(i) == one_of(<<"a", "d">>, i)

diff_position(i) == preceded(multispace0, u32_digits, i)

diff_eol(i) == pair(space0, line_ending, i)

diff_length_eol(i) == terminated(u32_digits, diff_eol, i)

diff_length(i) == preceded(multispace1, diff_length_eol, i)

diff_header(i) == tuple3(diff_opcode, diff_position, diff_length, i)

parse_diff_command(i) ==
    try(context("Diff", diff_header, i), LAMBDA h :
        IF h.val[1] = "a"
        THEN try(parse_diff_lines(h.rest, h.val[3]), LAMBDA l :
                 Ok(l.rest, Add(h.val[2], l.val)))
        ELSE Ok(h.rest, Delete(h.val[2], h.val[3])))

-----------------------------------------------------------------------------
(* parsers/combinators.rs: the four value shapes.  ctx is the context     *)
(* label, key the keyword, F the payload parser.                           *)

semicolon(i) == tag(<<";">>, i)

\* preceded(multispace0, tag(";"))
value_end(i) == preceded(multispace0, semicolon, i)

\* preceded(multispace0, tag(key))
value_key(key, i) == preceded(multispace0, LAMBDA j : tag(key, j), i)

\* parse_value: keyword value ;
parse_value(ctx, key, F(_), i) ==
    context(ctx,
            LAMBDA j : delimited(LAMBDA k : value_key(key, k),
                                 LAMBDA k : preceded(multispace0, F, k),
                                 value_end, j),
            i)

\* parse_value_opt: keyword [value] ;
parse_value_opt(ctx, key, F(_), i) ==
    context(ctx,
            LAMBDA j : delimited(LAMBDA k : value_key(key, k),
                                 LAMBDA k : preceded(multispace0,
                                                     LAMBDA m : opt(F, m), k),
                                 value_end, j),
            i)

\* parse_value_all_opt: [keyword value ;]
parse_value_all_opt(ctx, key, F(_), i) ==
    context(ctx,
            LAMBDA j : opt(LAMBDA n : delimited(LAMBDA k : value_key(key, k),
                                                LAMBDA k : preceded(multispace0, F, k),
                                                value_end, n),
                           j),
            i)

\* parse_value_many0: keyword value* ;
parse_value_many0(ctx, key, F(_), i) ==
    context(ctx,
            LAMBDA j : delimited(LAMBDA k : value_key(key, k),
                                 LAMBDA k : many0(LAMBDA m : preceded(multispace1, F, m), k),
                                 value_end, j),
            i)

-----------------------------------------------------------------------------
(* Keywords *)

kw_head      == <<"h", "e", "a", "d">>
kw_branch    == <<"b", "r", "a", "n", "c", "h">>
kw_access    == <<"a", "c", "c", "e", "s", "s">>
kw_symbols   == <<"s", "y", "m", "b", "o", "l", "s">>
kw_locks     == <<"l", "o", "c", "k", "s">>
kw_strict    == <<"s", "t", "r", "i", "c", "t">>
kw_integrity == <<"i", "n", "t", "e", "g", "r", "i", "t", "y">>
kw_comment   == <<"c", "o", "m", "m", "e", "n", "t">>
kw_expand    == <<"e", "x", "p", "a", "n", "d">>
kw_date      == <<"d", "a", "t", "e">>
kw_author    == <<"a", "u", "t", "h", "o", "r">>
kw_state     == <<"s", "t", "a", "t", "e">>
kw_branches  == <<"b", "r", "a", "n", "c", "h", "e", "s">>
kw_next      == <<"n", "e", "x", "t">>
kw_commitid  == <<"c", "o", "m", "m", "i", "t", "i", "d">>
kw_desc      == <<"d", "e", "s", "c">>
kw_log       == <<"l", "o", "g">>
kw_text      == <<"t", "e", "x", "t">>

-----------------------------------------------------------------------------
(* parsers/admin.rs *)

colon(i) == tag(<<":">>, i)

\* separated_pair(parse_sym, tag(":"), parse_num)
symbol_pair(i) == separated_pair(parse_sym, colon, parse_num, i)

\* separated_pair(parse_id, tag(":"), parse_num)
lock_pair(i) == separated_pair(parse_id, colon, parse_num, i)

is_some(o) == o # <<>>

strict_clause(i) ==
    terminated(LAMBDA j : value_key(kw_strict, j), value_end, i)

parse_strict(i) ==
    context("Admin",
            LAMBDA j : map(LAMBDA k : opt(strict_clause, k), is_some, j),
            i)

\* the empty BTreeMap
BTreeMap_new == <<>>

\* A faulty parse_admin that reads the strict flag after the comment clause:
\* C19 must tell it from parse_admin
parse_admin_strict_late(i) ==
    try(parse_value("Admin", kw_head, parse_num, i), LAMBDA head :
    try(parse_value_all_opt("Admin", kw_branch, parse_num, head.rest), LAMBDA branch :
    try(parse_value_many0("Admin", kw_access, parse_id, branch.rest), LAMBDA access :
    try(parse_value_many0("Admin", kw_symbols, symbol_pair, access.rest), LAMBDA symbols :
    try(parse_value_many0("Admin", kw_locks, lock_pair, symbols.rest), LAMBDA locks :
    try(parse_value_all_opt("Admin", kw_integrity, parse_intstring, locks.rest), LAMBDA integrity :
    try(parse_value_all_opt("Admin", kw_comment, parse_string, integrity.rest), LAMBDA comment :
    try(parse_strict(comment.rest), LAMBDA strict :
    try(parse_value_all_opt("Admin", kw_expand, parse_string, strict.rest), LAMBDA expand :
    Ok(expand.rest,
       [head      |-> head.val,
        branch    |-> branch.val,
        access    |-> access.val,
        symbols   |-> symbols.val,
        locks     |-> locks.val,
        strict    |-> strict.val,
        integrity |-> integrity.val,
        comment   |-> comment.val,
        expand    |-> expand.val,
        desc      |-> <<>>,
        deltas    |-> BTreeMap_new]))))))))))

parse_admin(i) ==
    try(parse_value("Admin", kw_head, parse_num, i), LAMBDA head :
    try(parse_value_all_opt("Admin", kw_branch, parse_num, head.rest), LAMBDA branch :
    try(parse_value_many0("Admin", kw_access, parse_id, branch.rest), LAMBDA access :
    try(parse_value_many0("Admin", kw_symbols, symbol_pair, access.rest), LAMBDA symbols :
    try(parse_value_many0("Admin", kw_locks, lock_pair, symbols.rest), LAMBDA locks :
    try(parse_strict(locks.rest), LAMBDA strict :
    try(parse_value_all_opt("Admin", kw_integrity, parse_intstring, strict.rest), LAMBDA integrity :
    try(parse_value_all_opt("Admin", kw_comment, parse_string, integrity.rest), LAMBDA comment :
    try(parse_value_all_opt("Admin", kw_expand, parse_string, comment.rest), LAMBDA expand :
    Ok(expand.rest,
       [head      |-> head.val,
        branch    |-> branch.val,
        access    |-> access.val,
        symbols   |-> symbols.val,
        locks     |-> locks.val,
        strict    |-> strict.val,
        integrity |-> integrity.val,
        comment   |-> comment.val,
        expand    |-> expand.val,
        desc      |-> <<>>,
        deltas    |-> BTreeMap_new]))))))))))

-----------------------------------------------------------------------------
(* parsers/delta.rs *)

\* Text::Head(s) and Text::Diff(v)
TextHead(s) == [tag |-> "Head", text |-> s]
TextDiff(v) == [tag |-> "Diff", commands |-> v]

\* The log and text a Delta holds between header parsing and the merge.
placeholder_log == <<>>
placeholder_text == TextDiff(<<>>)

\* preceded(multispace1, tag(key))
delta_key(key, i) == preceded(multispace1, LAMBDA j : tag(key, j), i)

parse_date(i) ==
    context("Delta",
            LAMBDA j : delimited(LAMBDA k : delta_key(kw_date, k),
                                 LAMBDA k : preceded(multispace1, parse_num, k),
                                 value_end, j),
            i)

parse_author(i) ==
    context("Delta",
            LAMBDA j : delimited(LAMBDA k : delta_key(kw_author, k),
                                 LAMBDA k : preceded(multispace1, parse_id, k),
                                 value_end, j),
            i)

\* A faulty parse_state that requires the value: C26 must tell it from
\* parse_state
parse_state_required(i) ==
    context("Delta",
            LAMBDA j : delimited(LAMBDA k : delta_key(kw_state, k),
                                 LAMBDA k : preceded(multispace1, parse_id, k),
                                 value_end, j),
            i)

parse_state(i) ==
    context("Delta",
            LAMBDA j : delimited(LAMBDA k : delta_key(kw_state, k),
                                 LAMBDA k : opt(LAMBDA m : preceded(multispace1, parse_id, m), k),
                                 value_end, j),
            i)

parse_branches(i) ==
    context("Delta",
            LAMBDA j : delimited(LAMBDA k : delta_key(kw_branches, k),
                                 LAMBDA k : many0(LAMBDA m : preceded(multispace1, parse_num, m), k),
                                 value_end, j),
            i)

parse_next(i) ==
    context("Delta",
            LAMBDA j : delimited(LAMBDA k : delta_key(kw_next, k),
                                 LAMBDA k : opt(LAMBDA m : preceded(multispace1, parse_num, m), k),
                                 value_end, j),
            i)

parse_commitid(i) ==
    context("Delta",
            LAMBDA j : opt(LAMBDA n : delimited(LAMBDA k : delta_key(kw_commitid, k),
                                                LAMBDA k : preceded(multispace1, parse_sym, k),
                                                value_end, n),
                           j),
            i)

parse_delta(i) ==
    try(context("Delta", LAMBDA j : preceded(multispace0, parse_num, j), i), LAMBDA n :
    try(parse_date(n.rest), LAMBDA date :
    try(parse_author(date.rest), LAMBDA author :
    try(parse_state(author.rest), LAMBDA state :
    try(parse_branches(state.rest), LAMBDA branches :
    try(parse_next(branches.rest), LAMBDA next :
    try(parse_commitid(next.rest), LAMBDA commitid :
    Ok(commitid.rest,
       [num      |-> n.val,
        date     |-> date.val,
        author   |-> author.val,
        state    |-> state.val,
        branches |-> branches.val,
        next     |-> next.val,
        commitid |-> commitid.val,
        log      |-> placeholder_log,
        text     |-> placeholder_text]))))))))

-----------------------------------------------------------------------------
(* parsers/deltatext.rs *)

DeltaText(n, log, text) == [num |-> n, log |-> log, text |-> text]

\* preceded(preceded(multispace1, tag("log")), preceded(multispace1, parse_string))
deltatext_log(i) ==
    preceded(LAMBDA j : delta_key(kw_log, j),
             LAMBDA j : preceded(multispace1, parse_string, j), i)

diff_commands(i) == many0(parse_diff_command, i)

\* preceded(tag("@"), map(terminated(many0(parse_diff_command), tag("@")), Text::Diff))
diff_string(i) ==
    preceded(at,
             LAMBDA j : map(LAMBDA k : terminated(diff_commands, at, k), TextDiff, j),
             i)

deltatext_text_diff(i) ==
    preceded(LAMBDA j : delta_key(kw_text, j),
             LAMBDA j : preceded(multispace1, diff_string, j), i)

head_string(i) == map(parse_string, TextHead, i)

deltatext_text_head(i) ==
    preceded(LAMBDA j : delta_key(kw_text, j),
             LAMBDA j : preceded(multispace1, head_string, j), i)

parse_deltatext(i) ==
    try(context("DeltaText",
                LAMBDA j : tuple3(parse_num, deltatext_log, deltatext_text_diff, j),
                i),
        LAMBDA r : Ok(r.rest, DeltaText(r.val[1], r.val[2], r.val[3])))

parse_deltatext_head(i) ==
    try(context("DeltaText",
                LAMBDA j : tuple3(parse_num, deltatext_log, deltatext_text_head, j),
                i),
        LAMBDA r : Ok(r.rest, DeltaText(r.val[1], r.val[2], r.val[3])))

-----------------------------------------------------------------------------
(* std::collections::BTreeMap<Num, Delta>, held as the list of its entries *)
(* in iteration order, which is ascending key order.                       *)

\* A faulty insert that keeps the entries in insertion order: C7 must tell
\* it from BTreeMap::insert
BTreeMap_insert_append(m, k, v) ==
    IF \E p \in 1..Len(m) : m[p].key = k
    THEN [p \in 1..Len(m) |->
            IF m[p].key = k THEN [key |-> k, value |-> v] ELSE m[p]]
    ELSE Append(m, [key |-> k, value |-> v])

\* BTreeMap::insert: a new key goes to its place in the order; an equal key
\* keeps its place and its value is replaced
RECURSIVE BTreeMap_insert(_, _, _)
BTreeMap_insert(m, k, v) ==
    IF m = <<>> THEN <<[key |-> k, value |-> v]>>
    ELSE LET c == Num_cmp(k, Head(m).key)
         IN  IF c < 0 THEN <<[key |-> k, value |-> v]>> \o m
             ELSE IF c = 0 THEN <<[key |-> Head(m).key, value |-> v]>> \o Tail(m)
             ELSE <<Head(m)>> \o BTreeMap_insert(Tail(m), k, v)

\* BTreeMap::get_mut: the position of the entry with key k, 0 for None
BTreeMap_get_mut(m, k) ==
    IF \E p \in 1..Len(m) : Num_cmp(k, m[p].key) = 0
    THEN CHOOSE p \in 1..Len(m) : Num_cmp(k, m[p].key) = 0
    ELSE 0

-----------------------------------------------------------------------------
(* parsers/rcsdata.rs *)

\* the first loop of build_deltas: for d in deltas.drain(..)
RECURSIVE insert_deltas(_, _)
insert_deltas(dtree, ds) ==
    IF ds = <<>> THEN dtree
    ELSE insert_deltas(BTreeMap_insert(dtree, Head(ds).num, Head(ds)), Tail(ds))

\* A faulty merge that leaves a delta alone once it has a log, so that the
\* first deltatext of a revision number wins: C30 must tell it from
\* merge_texts
RECURSIVE merge_texts_first_wins(_, _)
merge_texts_first_wins(dtree, ts) ==
    IF ts = <<>> THEN [kind |-> "Ok", val |-> dtree]
    ELSE LET t == Head(ts)
             p == BTreeMap_get_mut(dtree, t.num)
         IN  IF p = 0 THEN Panic
             ELSE IF dtree[p].value.log # placeholder_log
                  THEN merge_texts_first_wins(dtree, Tail(ts))
                  ELSE merge_texts_first_wins(
                         [dtree EXCEPT ![p].value.log = t.log, ![p].value.text = t.text],
                         Tail(ts))

\* the second loop of build_deltas: for t in texts.drain(..); get_mut().unwrap()
\* panics when the key is absent
RECURSIVE merge_texts(_, _)
merge_texts(dtree, ts) ==
    IF ts = <<>> THEN [kind |-> "Ok", val |-> dtree]
    ELSE LET t == Head(ts)
             p == BTreeMap_get_mut(dtree, t.num)
         IN  IF p = 0 THEN Panic
             ELSE merge_texts(
                    [dtree EXCEPT ![p].value.log = t.log, ![p].value.text = t.text],
                    Tail(ts))

\* build_deltas: [kind |-> "Ok", val |-> the map] or Panic
build_deltas(ds, ts) == merge_texts(insert_deltas(BTreeMap_new, ds), ts)

delta_list(i) == many0(parse_delta, i)

parse_deltas(i) == context("deltas", delta_list, i)

parse_desc(i) ==
    context("desc",
            LAMBDA j : preceded(LAMBDA k : delta_key(kw_desc, k),
                                LAMBDA k : preceded(multispace1, parse_string, k), j),
            i)

spaced_deltatext_head(i) == preceded(multispace0, parse_deltatext_head, i)

\* A faulty reader of the later deltatexts that takes each in the head form:
\* C21 must tell it from spaced_deltatext
spaced_deltatext_as_head(i) == preceded(multispace0, parse_deltatext_head, i)

\* preceded(multispace0, parse_deltatext)
spaced_deltatext(i) == preceded(multispace0, parse_deltatext, i)

later_deltatexts(i) == many0(spaced_deltatext, i)

\* A faulty parse_deltatexts that hands back the input left after the head
\* deltatext, so that the next stage reads the later deltatexts again: C3
\* must tell it from parse_deltatexts
parse_deltatexts_rewound(i) ==
    try(context("deltatexts", spaced_deltatext_head, i), LAMBDA delta_head :
    try(context("deltatexts", later_deltatexts, delta_head.rest), LAMBDA later :
    Ok(delta_head.rest, <<delta_head.val>> \o later.val)))

parse_deltatexts(i) ==
    try(context("deltatexts", spaced_deltatext_head, i), LAMBDA delta_head :
    try(context("deltatexts", later_deltatexts, delta_head.rest), LAMBDA later :
    Ok(later.rest, <<delta_head.val>> \o later.val)))

-----------------------------------------------------------------------------
(* The input texts.  A document is put together from blocks laid out as   *)
(* rcs writes them; `doc` records which blocks `input` is made of.         *)

\* the most delta headers and the most deltatext blocks in a document
MaxDeltas == 2
MaxDeltaTexts == 2

\* the revision numbers written in the documents: 1.9, 1.10, 2.1
RevTexts == {<<"1", ".", "9">>, <<"1", ".", "1", "0">>, <<"2", ".", "1">>}

\* what is wrong with a document: nothing; a violation of the grammar in the
\* admin block, the last delta header, the desc clause, the head deltatext
\* or the last later deltatext; no final line terminator; a number above
\* u32::MAX in the admin block.  "crlf" is no violation: the document ends
\* with "\r\n" where the others end with "\n".
Defects ==
    {"none", "admin", "delta", "desc", "head", "deltatext", "eol", "big", "crlf"}

\* "head 1.10; access; symbols; locks; strict; comment @# @;"
BlockAdmin ==
    <<"h", "e", "a", "d", "\t", "1", ".", "1", "0", ";", "\n", "a", "c",
      "c", "e", "s", "s", ";", "\n", "s", "y", "m", "b", "o", "l", "s",
      ";", "\n", "l", "o", "c", "k", "s", ";", " ", "s", "t", "r", "i",
      "c", "t", ";", "\n", "c", "o", "m", "m", "e", "n", "t", "\t", "@",
      "#", " ", "@", ";", "\n">>

\* the symbols clause is missing
BlockAdminBad ==
    <<"h", "e", "a", "d", "\t", "1", ".", "1", "0", ";", "\n", "a", "c",
      "c", "e", "s", "s", ";", "\n", "l", "o", "c", "k", "s", ";", " ",
      "s", "t", "r", "i", "c", "t", ";", "\n", "c", "o", "m", "m", "e",
      "n", "t", "\t", "@", "#", " ", "@", ";", "\n">>

\* the head revision 4294967296.1 has an element of 2^32
BlockAdminBig ==
    <<"h", "e", "a", "d", "\t", "4", "2", "9", "4", "9", "6", "7", "2",
      "9", "6", ".", "1", ";", "\n", "a", "c", "c", "e", "s", "s", ";",
      "\n", "s", "y", "m", "b", "o", "l", "s", ";", "\n", "l", "o", "c",
      "k", "s", ";", " ", "s", "t", "r", "i", "c", "t", ";", "\n", "c",
      "o", "m", "m", "e", "n", "t", "\t", "@", "#", " ", "@", ";", "\n">>

\* the k-th delta header, of revision n, written by author u<k>
BlockDelta(n, k) ==
    <<"\n">> \o n \o
    <<"\n", "d", "a", "t", "e", "\t", "2", "0", "2", "1", ".", "4", ".",
      "1", "0", ";", "\t", "a", "u", "t", "h", "o", "r", " ", "u">> \o
    <<Digits[k + 1]>> \o
    <<";", "\t", "s", "t", "a", "t", "e", " ", "E", "x", "p", ";", "\n",
      "b", "r", "a", "n", "c", "h", "e", "s", ";", "\n", "n", "e", "x",
      "t", "\t", ";", "\n">>

\* the author clause is missing
BlockDeltaBad(n, k) ==
    <<"\n">> \o n \o
    <<"\n", "d", "a", "t", "e", "\t", "2", "0", "2", "1", ".", "4", ".",
      "1", "0", ";", "\t", "s", "t", "a", "t", "e", " ", "E", "x", "p",
      ";", "\n", "b", "r", "a", "n", "c", "h", "e", "s", ";", "\n", "n",
      "e", "x", "t", "\t", ";", "\n">>

BlockDesc ==
    <<"\n", "\n", "d", "e", "s", "c", "\n", "@", "d", "@", "@", "e", "\n",
      "@", "\n">>

\* the desc keyword is missing
BlockDescBad ==
    <<"\n", "\n", "@", "d", "@", "@", "e", "\n", "@", "\n">>

\* the k-th deltatext, of revision n, with log "r<k>\n": the head form
BlockHead(n, k) ==
    <<"\n", "\n">> \o n \o <<"\n", "l", "o", "g", "\n", "@", "r", Digits[k + 1], "\n", "@", "\n">> \o
    <<"t", "e", "x", "t", "\n", "@", "f", "u", "l", "l", "\n", "t", "e",
      "x", "t", "\n", "@">>

\* the log keyword is missing
BlockHeadBad(n, k) ==
    <<"\n", "\n">> \o n \o <<"\n", "@", "r", Digits[k + 1], "\n", "@", "\n">> \o
    <<"t", "e", "x", "t", "\n", "@", "f", "u", "l", "l", "\n", "t", "e",
      "x", "t", "\n", "@">>

\* the k-th deltatext, of revision n, with log "r<k>\n": the diff form
BlockText(n, k) ==
    <<"\n", "\n", "\n">> \o n \o <<"\n", "l", "o", "g", "\n", "@", "r", Digits[k + 1], "\n", "@", "\n">> \o
    <<"t", "e", "x", "t", "\n", "@", "d", "1", " ", "1", "\n", "a", "1",
      " ", "1", "\n", "x", "\n", "@">>

\* the diff has a command c, which is neither a nor d
BlockTextBad(n, k) ==
    <<"\n", "\n", "\n">> \o n \o <<"\n", "l", "o", "g", "\n", "@", "r", Digits[k + 1], "\n", "@", "\n">> \o
    <<"t", "e", "x", "t", "\n", "@", "c", "1", " ", "1", "\n", "@">>

\* the sequences over S of length lo to hi
SeqsOfLength(S, lo, hi) == UNION {[1..n -> S] : n \in lo..hi}

Docs ==
    [headers : SeqsOfLength(RevTexts, 0, MaxDeltas),
     texts   : SeqsOfLength(RevTexts, 1, MaxDeltaTexts),
     defect  : Defects]

RenderAdmin(d) ==
    IF d.defect = "admin" THEN BlockAdminBad
    ELSE IF d.defect = "big" THEN BlockAdminBig
    ELSE BlockAdmin

RECURSIVE RenderDeltas(_, _)
RenderDeltas(d, k) ==
    IF k > Len(d.headers) THEN <<>>
    ELSE (IF d.defect = "delta" /\ k = Len(d.headers)
          THEN BlockDeltaBad(d.headers[k], k)
          ELSE BlockDelta(d.headers[k], k)) \o RenderDeltas(d, k + 1)

RenderDesc(d) == IF d.defect = "desc" THEN BlockDescBad ELSE BlockDesc

RECURSIVE RenderTexts(_, _)
RenderTexts(d, k) ==
    IF k > Len(d.texts) THEN <<>>
    ELSE (IF k = 1
          THEN (IF d.defect = "head"
                THEN BlockHeadBad(d.texts[k], k)
                ELSE BlockHead(d.texts[k], k))
          ELSE (IF d.defect = "deltatext" /\ k = Len(d.texts)
                THEN BlockTextBad(d.texts[k], k)
                ELSE BlockText(d.texts[k], k))) \o RenderTexts(d, k + 1)

RenderEnd(d) ==
    IF d.defect = "eol" THEN <<>>
    ELSE IF d.defect = "crlf" THEN <<"\r", "\n">>
    ELSE <<"\n">>

Render(d) ==
    RenderAdmin(d) \o RenderDeltas(d, 1) \o RenderDesc(d) \o RenderTexts(d, 1)
    \o RenderEnd(d)

\* some block of the document violates the grammar
HasViolation(d) ==
    \/ d.defect \in {"admin", "desc", "head"}
    \/ d.defect = "delta" /\ Len(d.headers) > 0
    \/ d.defect = "deltatext" /\ Len(d.texts) > 1

-----------------------------------------------------------------------------
(* parse_rcs, one action per statement *)

None == [kind |-> "None"]

\* the variables of the Num operations and of the single lexer calls, idle
NumIdle == numA = None /\ numB = None /\ numOut = None
LexIdle == lexIn = None /\ lexOut = None

Init ==
    /\ doc \in Docs
    /\ input = Render(doc)
    /\ rest = input
    /\ pc = "admin"
    /\ rcsdata = None
    /\ deltas = <<>>
    /\ desc = <<>>
    /\ deltatexts = <<>>
    /\ result = None
    /\ NumIdle
    /\ LexIdle

\* `?` on a stage that failed: parse_rcs returns the error (or unwinds)
Abort(r) ==
    /\ result' = r
    /\ pc' = "done"
    /\ UNCHANGED <<rest, rcsdata, deltas, desc, deltatexts>>

\* let (input, mut rcsdata) = context(CONTEXT, parse_admin)(input)?;
ParseAdmin ==
    /\ pc = "admin"
    /\ LET r == context("RCS", parse_admin, rest)
       IN  IF IsOk(r)
           THEN /\ rcsdata' = r.val
                /\ rest' = r.rest
                /\ pc' = "deltas"
                /\ UNCHANGED <<deltas, desc, deltatexts, result>>
           ELSE Abort(r)
    /\ UNCHANGED <<doc, input, numVars, lexVars>>

\* let (input, deltas) = context(CONTEXT, parse_deltas)(input)?;
ParseDeltas ==
    /\ pc = "deltas"
    /\ LET r == context("RCS", parse_deltas, rest)
       IN  IF IsOk(r)
           THEN /\ deltas' = r.val
                /\ rest' = r.rest
                /\ pc' = "desc"
                /\ UNCHANGED <<rcsdata, desc, deltatexts, result>>
           ELSE Abort(r)
    /\ UNCHANGED <<doc, input, numVars, lexVars>>

\* let (input, desc) = context(CONTEXT, parse_desc)(input)?;
ParseDesc ==
    /\ pc = "desc"
    /\ LET r == context("RCS", parse_desc, rest)
       IN  IF IsOk(r)
           THEN /\ desc' = r.val
                /\ rest' = r.rest
                /\ pc' = "deltatexts"
                /\ UNCHANGED <<rcsdata, deltas, deltatexts, result>>
           ELSE Abort(r)
    /\ UNCHANGED <<doc, input, numVars, lexVars>>

\* let (input, deltatexts) = context(CONTEXT, parse_deltatexts)(input)?;
ParseDeltatexts ==
    /\ pc = "deltatexts"
    /\ LET r == context("RCS", parse_deltatexts, rest)
       IN  IF IsOk(r)
           THEN /\ deltatexts' = r.val
                /\ rest' = r.rest
                /\ pc' = "line_ending"
                /\ UNCHANGED <<rcsdata, deltas, desc, result>>
           ELSE Abort(r)
    /\ UNCHANGED <<doc, input, numVars, lexVars>>

\* A faulty last stage that goes on without a line terminator, as
\* opt(line_ending) would: C23 must tell it from ParseLineEnding
ParseLineEndingOptional ==
    /\ pc = "line_ending"
    /\ LET r == context("RCS", line_ending, rest)
       IN  /\ rest' = IF IsOk(r) THEN r.rest ELSE rest
           /\ pc' = "build"
           /\ UNCHANGED <<rcsdata, deltas, desc, deltatexts, result>>
    /\ UNCHANGED <<doc, input, numVars, lexVars>>

\* let (input, _) = context(CONTEXT, line_ending)(input)?;
ParseLineEnding ==
    /\ pc = "line_ending"
    /\ LET r == context("RCS", line_ending, rest)
       IN  IF IsOk(r)
           THEN /\ rest' = r.rest
                /\ pc' = "build"
                /\ UNCHANGED <<rcsdata, deltas, desc, deltatexts, result>>
           ELSE Abort(r)
    /\ UNCHANGED <<doc, input, numVars, lexVars>>

\* rcsdata.desc = desc; rcsdata.deltas = build_deltas(deltas, deltatexts);
\* Ok((input, rcsdata))
BuildDeltas ==
    /\ pc = "build"
    /\ LET b == build_deltas(deltas, deltatexts)
       IN  IF IsOk(b)
           THEN /\ rcsdata' = [rcsdata EXCEPT !.desc = desc, !.deltas = b.val]
                /\ result' = Ok(rest, rcsdata')
                /\ pc' = "done"
                /\ UNCHANGED <<rest, deltas, desc, deltatexts>>
           ELSE Abort(b)
    /\ UNCHANGED <<doc, input, numVars, lexVars>>

Next ==
    \/ ParseAdmin
    \/ ParseDeltas
    \/ ParseDesc
    \/ ParseDeltatexts
    \/ ParseLineEnding
    \/ BuildDeltas

Spec == Init /\ [][Next]_vars

-----------------------------------------------------------------------------
(* The Num operations, applied to operands drawn from a bounded set *)

\* the longest Num drawn
MaxNumLen == 3

\* the elements drawn: 9 and 10 order differently as numbers and as text,
\* 65536 does not fit the low half of a u32
NumElems == {1, 9, 10, 65536}

Nums == {num(ns) : ns \in SeqsOfLength(NumElems, 0, MaxNumLen)}

\* parse_rcs is not running
RcsIdle ==
    /\ doc = None
    /\ input = <<>>
    /\ rest = <<>>
    /\ pc = "idle"
    /\ rcsdata = None
    /\ deltas = <<>>
    /\ desc = <<>>
    /\ deltatexts = <<>>
    /\ result = None

InitNum ==
    /\ numA \in Nums
    /\ numB \in Nums
    /\ numOut = None
    /\ RcsIdle
    /\ LexIdle

\* numA.cmp(&numB)
CallCmp ==
    /\ numOut = None
    /\ numOut' = [op |-> "cmp", val |-> Num_cmp(numA, numB)]
    /\ UNCHANGED <<numA, numB, rcsVars, lexVars>>

\* numA.is_branch()
CallIsBranch ==
    /\ numOut = None
    /\ numOut' = [op |-> "is_branch", val |-> is_branch(numA)]
    /\ UNCHANGED <<numA, numB, rcsVars, lexVars>>

\* numA.is_revision()
CallIsRevision ==
    /\ numOut = None
    /\ numOut' = [op |-> "is_revision", val |-> is_revision(numA)]
    /\ UNCHANGED <<numA, numB, rcsVars, lexVars>>

NextNum ==
    \/ CallCmp
    \/ CallIsBranch
    \/ CallIsRevision

SpecNum == InitNum /\ [][NextNum]_vars

-----------------------------------------------------------------------------
(* Single parser calls on texts drawn from a bounded set *)

\* digit runs: small values, u32::MAX, u32::MAX + 1, a longer run, none
DigitRuns ==
    {<<"1">>, <<"0", "1", "2">>,
     <<"4", "2", "9", "4", "9", "6", "7", "2", "9", "5">>,
     <<"4", "2", "9", "4", "9", "6", "7", "2", "9", "6">>,
     <<"9", "9", "9", "9", "9", "9", "9", "9", "9", "9", "9">>,
     <<>>}

LexOpcodes == {<<>>, <<"a">>, <<"d">>, <<"c">>, <<" ", "d">>}
LexSeparators == {<<" ">>, <<".">>, <<>>}
LexTails == {<<>>, <<"\n">>, <<"\r", "\n", "x", "\n">>, <<"\n", "x", "\n", "y", "\n">>}

\* opcode, digits, separator, digits, tail
LexInputs ==
    {o \o p \o s \o n \o t :
        o \in LexOpcodes, p \in DigitRuns, s \in LexSeparators,
        n \in DigitRuns, t \in LexTails}

InitLex ==
    /\ lexIn \in LexInputs
    /\ lexOut = None
    /\ RcsIdle
    /\ NumIdle

\* parse_num(lexIn)
CallParseNum ==
    /\ lexOut = None
    /\ lexOut' = [op |-> "parse_num", res |-> parse_num(lexIn)]
    /\ UNCHANGED <<lexIn, rcsVars, numVars>>

\* parse_diff_command(lexIn)
CallParseDiffCommand ==
    /\ lexOut = None
    /\ lexOut' = [op |-> "parse_diff_command", res |-> parse_diff_command(lexIn)]
    /\ UNCHANGED <<lexIn, rcsVars, numVars>>

NextLex ==
    \/ CallParseNum
    \/ CallParseDiffCommand

SpecLex == InitLex /\ [][NextLex]_vars

-----------------------------------------------------------------------------
(* Properties of parse_rcs *)

\* the revision numbers of the parsed delta headers and deltatexts
HeaderNums == {deltas[k].num : k \in 1..Len(deltas)}
TextNums == {deltatexts[k].num : k \in 1..Len(deltatexts)}

\* two parsed delta headers carry the same revision number
DuplicateHeaders ==
    \E j, k \in 1..Len(deltas) : j # k /\ deltas[j].num = deltas[k].num

\* the value of a Num element, and the elements of a Num, as integers
IntOf(e) == e.hi * HalfWord + e.lo
IntsOf(n) == [k \in 1..Len(n.numbers) |-> IntOf(n.numbers[k])]

\* a is before b: a is a proper prefix of b, or the first element in which
\* they differ is the smaller in a
SeqLess(a, b) ==
    \/ /\ Len(a) < Len(b)
       /\ \A j \in 1..Len(a) : a[j] = b[j]
    \/ \E k \in 1..Len(a) :
          /\ k <= Len(b)
          /\ a[k] < b[k]
          /\ \A j \in 1..(k - 1) : a[j] = b[j]

NumLess(a, b) == SeqLess(IntsOf(a), IntsOf(b))

\* s is what is left of t after some prefix of it
IsSuffixOf(s, t) == Len(s) <= Len(t) /\ s = Drop(t, Len(t) - Len(s))

\* C1: at the end of parse_rcs, when some parsed deltatext has a revision
\* number that no parsed delta header has, the result is an error value
\* (the merge does not end in an unchecked lookup failure).
C1_MissingHeaderIsError ==
    (pc = "done" /\ TextNums \ HeaderNums # {}) => IsErr(result)

\* C2: when a block of the document violates the grammar, parse_rcs does
\* not return a document.
C2_ViolationGivesNoDocument ==
    (pc = "done" /\ HasViolation(doc)) => ~IsOk(result)

\* the well-formed blocks in front of the first violation
GoodHeaders(d) ==
    IF d.defect = "delta" /\ Len(d.headers) > 0
    THEN Len(d.headers) - 1 ELSE Len(d.headers)
GoodTexts(d) ==
    IF d.defect = "deltatext" /\ Len(d.texts) > 1
    THEN Len(d.texts) - 1 ELSE Len(d.texts)

\* the length of the first n delta headers, and of the first n deltatexts
RECURSIVE LenDeltas(_, _)
LenDeltas(d, n) ==
    IF n = 0 THEN 0
    ELSE LenDeltas(d, n - 1) + Len(BlockDelta(d.headers[n], n))

RECURSIVE LenTexts(_, _)
LenTexts(d, n) ==
    IF n = 0 THEN 0
    ELSE LenTexts(d, n - 1)
         + Len(IF n = 1 THEN BlockHead(d.texts[n], n) ELSE BlockText(d.texts[n], n))

\* How much of the document is behind parse_rcs when a stage has succeeded:
\* the blocks of the stages so far, less the line break that follows the
\* last character of the admin block, of a delta header and of desc.
StageEnd(d, stage) ==
    LET admin == Len(BlockAdmin)
        heads == admin + LenDeltas(d, GoodHeaders(d))
        descr == heads + Len(BlockDesc)
        texts == descr + LenTexts(d, GoodTexts(d))
    IN  CASE stage = "admin"       -> admin - 1
          [] stage = "deltas"      -> heads - 1
          [] stage = "desc"        -> descr - 1
          [] stage = "deltatexts"  -> texts
          [] stage = "line_ending" -> texts + Len(RenderEnd(d))
          [] stage = "build"       -> texts + Len(RenderEnd(d))

StageOrder ==
    <<"admin", "deltas", "desc", "deltatexts", "line_ending", "build", "done">>

\* the stage succeeded in this step
StageSucceeded == pc' # "done" \/ IsOk(result')

\* C3: every step of parse_rcs goes from a stage to the next one in the
\* order admin, deltas, desc, deltatexts (the head one first, then the
\* ordinary ones), line terminator, merge, or ends the parse; what is left
\* of the input after the step is a suffix of what was left before it; a
\* stage that succeeds stops at the end of its own blocks, so that the next
\* starts there, and one that fails consumes nothing.
C3_StagesInOrder ==
    [][ /\ \E k \in 1..6 :
              pc = StageOrder[k] /\ pc' \in {StageOrder[k + 1], "done"}
        /\ IsSuffixOf(rest, input)
        /\ IsSuffixOf(rest', rest)
        /\ StageSucceeded => rest' = Drop(input, StageEnd(doc, pc))
        /\ ~StageSucceeded => rest' = rest
        /\ (pc = "deltas" /\ StageSucceeded) =>
              Len(deltas') = GoodHeaders(doc)
        /\ (pc = "deltatexts" /\ StageSucceeded) =>
              /\ Len(deltatexts') = GoodTexts(doc)
              /\ deltatexts'[1].text.tag = "Head"
              /\ \A k \in 2..Len(deltatexts') : deltatexts'[k].text.tag = "Diff"
      ]_vars

\* parse_rcs has run all its stages over a document with two delta headers
\* and an ordinary deltatext behind the head one
C3_Witness ==
    /\ pc = "done"
    /\ IsOk(result)
    /\ Len(deltas) = 2
    /\ Len(deltatexts) = 2
    /\ result.rest = Drop(input, StageEnd(doc, "build"))

\* the delta the document holds under revision number n
DeltaOf(m, n) == m[CHOOSE p \in 1..Len(m) : m[p].key = n].value

\* C4: in a document parse_rcs returns, the delta under the number of every
\* parsed deltatext t has the log and the text of t, and every delta is one
\* of the parsed headers in all but log and text.
C4_MergeCopiesLogAndText ==
    (pc = "done" /\ IsOk(result)) =>
        LET m == result.val.deltas
        IN  /\ \A k \in 1..Len(deltatexts) :
                  /\ \E p \in 1..Len(m) : m[p].key = deltatexts[k].num
                  /\ DeltaOf(m, deltatexts[k].num).log = deltatexts[k].log
                  /\ DeltaOf(m, deltatexts[k].num).text = deltatexts[k].text
            /\ \A p \in 1..Len(m) : \E j \in 1..Len(deltas) :
                  [m[p].value EXCEPT !.log = deltas[j].log,
                                     !.text = deltas[j].text] = deltas[j]

\* C5: when two parsed delta headers carry the same revision number (and
\* every deltatext has a header), parse_rcs ends in an error.
C5_DuplicateHeaderIsError ==
    (pc = "done" /\ DuplicateHeaders /\ TextNums \subseteq HeaderNums) =>
        IsErr(result)

\* C6: when some parsed delta header has no deltatext of its revision number
\* (and every deltatext has a header), parse_rcs ends in an error.
C6_MissingTextIsError ==
    (pc = "done" /\ deltatexts # <<>> /\ HeaderNums \ TextNums # {}
        /\ TextNums \subseteq HeaderNums) =>
        IsErr(result)

\* C7: in a document parse_rcs returns, every key of deltas maps to a delta
\* with that num, the keys are the revision numbers of the parsed delta
\* headers, and the entries are in strictly ascending Num order.
C7_DeltasKeyedAndOrdered ==
    (pc = "done" /\ IsOk(result)) =>
        LET m == result.val.deltas
        IN  /\ \A p \in 1..Len(m) : m[p].value.num = m[p].key
            /\ {m[p].key : p \in 1..Len(m)} = HeaderNums
            /\ \A p, q \in 1..Len(m) : p < q => NumLess(m[p].key, m[q].key)

\* a document came back whose two headers stood in descending order in the
\* file
C7_Witness ==
    /\ pc = "done"
    /\ IsOk(result)
    /\ Len(deltas) = 2
    /\ NumLess(deltas[2].num, deltas[1].num)
    /\ Len(result.val.deltas) = 2

-----------------------------------------------------------------------------
(* Properties of the Num operations and of the single parser calls *)

\* the short Nums, third operands of the transitivity of the order
ShortNums == {num(ns) : ns \in SeqsOfLength(NumElems, 0, 2)}

\* C8: numA.cmp(&numB) is Less exactly when numA is a proper prefix of numB
\* or the first differing element is the smaller in numA, as integers;
\* Greater in the mirrored case; Equal exactly for equal sequences; the
\* order is antisymmetric and transitive.
C8_NumOrder ==
    (numOut # None /\ numOut.op = "cmp") =>
        /\ numOut.val \in {-1, 0, 1}
        /\ (numOut.val = -1) <=> NumLess(numA, numB)
        /\ (numOut.val = 1) <=> NumLess(numB, numA)
        /\ (numOut.val = 0) <=> (numA = numB)
        /\ Num_cmp(numB, numA) = 0 - numOut.val
        /\ \A c \in ShortNums :
              (numOut.val = -1 /\ Num_cmp(numB, c) = -1) => Num_cmp(numA, c) = -1

\* 1.10 was compared with 1.9 and found greater
C8_Witness ==
    /\ numOut # None
    /\ numOut.op = "cmp"
    /\ numA = num(<<1, 10>>)
    /\ numB = num(<<1, 9>>)
    /\ numOut.val = 1

\* C9: a call of parse_num or of parse_diff_command ends in a success with
\* the input left over or in an error value.
C9_OkOrError ==
    lexOut # None => lexOut.res.kind \in {"Ok", "Err"}

\* C10: is_branch is true exactly of the Nums with an odd number of
\* elements, and is_revision exactly of the others.
C10_BranchIffOdd ==
    /\ (numOut # None /\ numOut.op = "is_branch") =>
          (numOut.val <=> \E j \in 0..Len(numA.numbers) : Len(numA.numbers) = 2 * j + 1)
    /\ (numOut # None /\ numOut.op = "is_revision") =>
          (numOut.val <=> \E j \in 0..Len(numA.numbers) : Len(numA.numbers) = 2 * j)

\* is_revision was asked of the empty Num and answered true
C10_Witness ==
    /\ numOut # None
    /\ numOut.op = "is_revision"
    /\ numA = num(<<>>)
    /\ numOut.val = TRUE

-----------------------------------------------------------------------------
(* The branching points of a Num, on longer Nums *)

\* the longest Num drawn
MaxPointLen == 6

PointElems == {1, 2, 65536}

\* the Nums up to MaxPointLen, and the Num of the documentation's example
PointNums ==
    {num(ns) : ns \in SeqsOfLength(PointElems, 0, MaxPointLen)}
    \cup {num(<<1, 2, 3, 4, 5, 6, 7, 8>>)}

InitPoint ==
    /\ numA \in PointNums
    /\ numB = None
    /\ numOut = None
    /\ RcsIdle
    /\ LexIdle

\* numA.get_branching_point()
CallGetBranchingPoint ==
    /\ numOut = None
    /\ numOut' = [op |-> "get_branching_point", val |-> get_branching_point(numA)]
    /\ UNCHANGED <<numA, numB, rcsVars, lexVars>>

\* numA.get_branching_points()
CallGetBranchingPoints ==
    /\ numOut = None
    /\ numOut' = [op |-> "get_branching_points", val |-> get_branching_points(numA)]
    /\ UNCHANGED <<numA, numB, rcsVars, lexVars>>

NextPoint ==
    \/ CallGetBranchingPoint
    \/ CallGetBranchingPoints

SpecPoint == InitPoint /\ [][NextPoint]_vars

\* p is the prefix of length k of the Num n, element for element
IsPrefixOfLength(p, n, k) ==
    /\ DOMAIN p = {"numbers"}
    /\ Len(p.numbers) = k
    /\ k <= Len(n.numbers)
    /\ \A j \in 1..k : p.numbers[j] = n.numbers[j]

\* C11: a call of get_branching_point on a Num of length n >= 3 returns the
\* prefix of length n - 1 when n is odd and of length n - 2 when n is even,
\* its elements those of the receiver, and leaves the receiver as it was.
C11_BranchingPoint ==
    [][ (numOut' # numOut /\ numOut'.op = "get_branching_point"
            /\ Len(numA.numbers) >= 3) =>
          /\ numA' = numA
          /\ \E j \in 1..Len(numA.numbers) :
                \/ /\ Len(numA.numbers) = 2 * j + 1
                   /\ IsPrefixOfLength(numOut'.val, numA, 2 * j)
                \/ /\ Len(numA.numbers) = 2 * j + 2
                   /\ IsPrefixOfLength(numOut'.val, numA, 2 * j)
      ]_vars

\* get_branching_point has answered 1.2 for the revision 1.2.1.2
C11_Witness ==
    /\ numOut # None
    /\ numOut.op = "get_branching_point"
    /\ numA = num(<<1, 2, 1, 2>>)
    /\ numOut.val = num(<<1, 2>>)

\* C12: get_branching_points of a Num of length n returns, shortest first,
\* the prefixes of the lengths 2, 4, 6, ... below n and nothing else:
\* none for n <= 2.
C12_BranchingPoints ==
    (numOut # None /\ numOut.op = "get_branching_points") =>
        LET n == Len(numA.numbers)
            points == numOut.val
        IN  /\ \A k \in 1..Len(points) : IsPrefixOfLength(points[k], numA, 2 * k)
            /\ \A k \in 1..Len(points) : 2 * k < n
            /\ \A k \in 1..n : 2 * k < n => k <= Len(points)
            /\ n <= 2 => points = <<>>

\* 1.2.3.4.5.6.7.8 has given 1.2, 1.2.3.4 and 1.2.3.4.5.6
C12_Witness ==
    /\ numOut # None
    /\ numOut.op = "get_branching_points"
    /\ numA = num(<<1, 2, 3, 4, 5, 6, 7, 8>>)
    /\ numOut.val = <<num(<<1, 2>>), num(<<1, 2, 3, 4>>), num(<<1, 2, 3, 4, 5, 6>>)>>

-----------------------------------------------------------------------------
(* parse_string on strings written from a body and on malformed ones *)

\* the longest string body drawn
MaxBodyLen == 3

BodyChars == {"a", "@", ";"}

Bodies == SeqsOfLength(BodyChars, 0, MaxBodyLen)

\* what follows the string: nothing, another token, text with more '@'
StringRests ==
    {<<>>, <<"x">>, <<";", "@">>, <<"\n", "@", "a", "@">>}

\* the body as it is written in a file: every '@' twice
RECURSIVE Escape(_)
Escape(s) ==
    IF s = <<>> THEN <<>>
    ELSE (IF Head(s) = "@" THEN <<"@", "@">> ELSE <<Head(s)>>) \o Escape(Tail(s))

\* the string of body s, followed by r
Written(s, r) == <<"@">> \o Escape(s) \o <<"@">> \o r

\* the string of body s without its closing '@'
Unterminated(s) == <<"@">> \o Escape(s)

StringInputs ==
    {Written(s, r) : s \in Bodies, r \in StringRests}
    \cup {Unterminated(s) : s \in Bodies}
    \cup {s \in Bodies : s = <<>> \/ s[1] # "@"}

InitString ==
    /\ lexIn \in StringInputs
    /\ lexOut = None
    /\ RcsIdle
    /\ NumIdle

\* parse_string(lexIn)
CallParseString ==
    /\ lexOut = None
    /\ lexOut' = [op |-> "parse_string", res |-> parse_string(lexIn)]
    /\ UNCHANGED <<lexIn, rcsVars, numVars>>

NextString == CallParseString

SpecString == InitString /\ [][NextString]_vars

\* C13: parse_string of '@', a body s with every '@' doubled, '@' and a
\* rest that does not begin with '@' is the value s with the rest left over.
C13_StringRoundTrip ==
    (lexOut # None /\ lexOut.op = "parse_string") =>
        \A s \in Bodies, r \in StringRests :
            lexIn = Written(s, r) => lexOut.res = Ok(r, s)

\* the body a@; was read back from @a@@;@ with more '@' behind it
C13_Witness ==
    /\ lexOut # None
    /\ lexOut.op = "parse_string"
    /\ lexIn = Written(<<"a", "@", ";">>, <<"\n", "@", "a", "@">>)
    /\ lexOut.res = Ok(<<"\n", "@", "a", "@">>, <<"a", "@", ";">>)

\* C14: parse_string is an error, with no value, on an input that does not
\* start with '@' and on one whose opening '@' has no unpaired '@' behind
\* it; in the second case the innermost error is at the end of the input.
C14_StringErrors ==
    (lexOut # None /\ lexOut.op = "parse_string") =>
        /\ (lexIn = <<>> \/ lexIn[1] # "@") =>
              /\ IsErr(lexOut.res)
              /\ "val" \notin DOMAIN lexOut.res
        /\ (\E s \in Bodies : lexIn = Unterminated(s)) =>
              /\ IsErr(lexOut.res)
              /\ "val" \notin DOMAIN lexOut.res
              /\ lexOut.res.errors[1].input = <<>>

\* @a@@ was refused: its second and third '@' are a pair
C14_Witness ==
    /\ lexOut # None
    /\ lexOut.op = "parse_string"
    /\ lexIn = <<"@", "a", "@", "@">>
    /\ IsErr(lexOut.res)
    /\ lexOut.res.errors[1].input = <<>>

-----------------------------------------------------------------------------
(* parse_diff_command on commands with a body of lines *)

\* the most lines written behind a command
MaxLines == 2

\* line contents: empty, plain, a doubled '@', the text of a command, a
\* carriage return inside the line
DiffLineTexts ==
    {<<>>, <<"x">>, <<"x", "@", "@", "y">>, <<"a", "1", " ", "1">>, <<"x", "\r", "y">>}

LineEndings == {<<"\n">>, <<"\r", "\n">>}

TerminatedLines == {l \o e : l \in DiffLineTexts, e \in LineEndings}

\* the lines of ls, one after the other
RECURSIVE Flatten(_)
Flatten(ls) == IF ls = <<>> THEN <<>> ELSE Head(ls) \o Flatten(Tail(ls))

\* a, or d, position 1, a count of 0 to 3, up to MaxLines terminated
\* lines and maybe a last line without its line ending
DiffInputs ==
    {<<o, "1", " ", n, "\n">> \o Flatten(ls) \o t :
        o \in {"a", "d"}, n \in {"0", "1", "2", "3"},
        ls \in SeqsOfLength(TerminatedLines, 0, MaxLines),
        t \in {<<>>, <<"z">>}}

InitDiff ==
    /\ lexIn \in DiffInputs
    /\ lexOut = None
    /\ RcsIdle
    /\ NumIdle

NextDiff == CallParseDiffCommand

SpecDiff == InitDiff /\ [][NextDiff]_vars

\* the place of the first line feed of t
FirstLineFeed(t) == CHOOSE k \in 1..Len(t) : t[k] = "\n" /\ \A j \in 1..(k - 1) : t[j] # "\n"

\* a line without the carriage return of its "\r\n"
WithoutCr(l) == IF l # <<>> /\ l[Len(l)] = "\r" THEN Take(l, Len(l) - 1) ELSE l

\* The first n lines of t, each ended by "\n" or "\r\n", and what follows
\* them; ok is FALSE when t has fewer than n ended lines.
RECURSIVE FirstLines(_, _)
FirstLines(t, n) ==
    IF n = 0 THEN [ok |-> TRUE, lines |-> <<>>, rest |-> t]
    ELSE IF \A k \in 1..Len(t) : t[k] # "\n" THEN [ok |-> FALSE]
    ELSE LET k == FirstLineFeed(t)
             more == FirstLines(Drop(t, k), n - 1)
         IN  IF more.ok
             THEN [ok |-> TRUE,
                   lines |-> <<WithoutCr(Take(t, k - 1))>> \o more.lines,
                   rest |-> more.rest]
             ELSE more

\* a line with every "@@" read as one '@'
RECURSIVE Unescape(_)
Unescape(l) ==
    IF l = <<>> THEN <<>>
    ELSE IF Len(l) >= 2 /\ l[1] = "@" /\ l[2] = "@"
         THEN <<"@">> \o Unescape(Drop(l, 2))
         ELSE <<Head(l)>> \o Unescape(Tail(l))

\* parse_diff_command has answered for the add command a1 n with n = count
AddAnswered(count) ==
    /\ lexOut # None
    /\ lexOut.op = "parse_diff_command"
    /\ Take(lexIn, 5) = <<"a", "1", " ", Digits[count + 1], "\n">>

\* C15: for the add command a1 n, parse_diff_command returns Add(1, the next
\* n ended lines, whatever their characters) and leaves what follows the
\* n-th line ending; with fewer than n ended lines it returns an error.
C15_AddTakesCountLines ==
    \A count \in 0..3 :
        AddAnswered(count) =>
            LET want == FirstLines(Drop(lexIn, 5), count)
            IN  IF want.ok
                THEN lexOut.res = Ok(want.rest, Add(u32(1), want.lines))
                ELSE IsErr(lexOut.res)

\* C16: every line parse_diff_command returns in an Add is the line of the
\* input with each "@@" read as one '@'.
C16_AddLinesUnescaped ==
    \A count \in 0..3 :
        (AddAnswered(count) /\ IsOk(lexOut.res)) =>
            LET want == FirstLines(Drop(lexIn, 5), count)
            IN  /\ Len(lexOut.res.val.lines) = count
                /\ \A k \in 1..count :
                      lexOut.res.val.lines[k] = Unescape(want.lines[k])

-----------------------------------------------------------------------------
(* Properties of parse_diff_command and parse_num on single texts *)

\* the value of a decimal digit
DigitValue(c) == CHOOSE k \in 0..9 : Digits[k + 1] = c

\* the value of at most five digits
RECURSIVE SmallValue(_)
SmallValue(ds) ==
    IF ds = <<>> THEN 0
    ELSE 10 * SmallValue(Take(ds, Len(ds) - 1)) + DigitValue(ds[Len(ds)])

RECURSIVE StripZeros(_)
StripZeros(ds) == IF ds # <<>> /\ Head(ds) = "0" THEN StripZeros(Tail(ds)) ELSE ds

\* the digits before the last five, and the last five
HighDigits(ds) == Take(ds, Len(ds) - 5)
LowDigits(ds) == IF Len(ds) <= 5 THEN ds ELSE Drop(ds, Len(ds) - 5)

\* the digits denote a value of at most 4294967295 = 42949 * 10^5 + 67295
FitsU32(ds) ==
    LET s == StripZeros(ds)
        high == SmallValue(HighDigits(s))
    IN  \/ Len(s) < 10
        \/ /\ Len(s) = 10
           /\ \/ high < 42949
              \/ high = 42949 /\ SmallValue(LowDigits(s)) <= 67295

\* The u32 the digits denote, for digits that fit: with high and low the two
\* parts of the decimal, high * 10^5 + low = high * 2^16 + (high * 34464 + low).
ValueOf(ds) ==
    LET s == StripZeros(ds)
        high == SmallValue(HighDigits(s))
        low == high * 34464 + SmallValue(LowDigits(s))
    IN  [hi |-> high + low \div HalfWord, lo |-> low % HalfWord]

FittingRuns == {ds \in DigitRuns : ds # <<>> /\ FitsU32(ds)}

DiffAnswered == lexOut # None /\ lexOut.op = "parse_diff_command"

\* what follows the line ending t begins with
AfterLineEnding(t) == IF Head(t) = "\n" THEN Tail(t) ELSE Drop(t, 2)

\* C17: parse_diff_command succeeds only on a text whose first character is
\* 'a' or 'd'; on a text with another first character (whitespace and 'c'
\* among them) it returns an error whose entries all point at the start of
\* the text; and on "d" position " " count followed by a line ending it
\* returns Delete(position, count) and leaves what follows that line ending.
C17_DiffOpcodes ==
    DiffAnswered =>
        /\ IsOk(lexOut.res) => (lexIn # <<>> /\ Head(lexIn) \in {"a", "d"})
        /\ (lexIn # <<>> /\ Head(lexIn) \notin {"a", "d"}) =>
              /\ IsErr(lexOut.res)
              /\ \A k \in 1..Len(lexOut.res.errors) : lexOut.res.errors[k].input = lexIn
        /\ \A p \in FittingRuns, n \in FittingRuns, t \in LexTails \ {<<>>} :
              lexIn = <<"d">> \o p \o <<" ">> \o n \o t =>
                  lexOut.res = Ok(AfterLineEnding(t), Delete(ValueOf(p), ValueOf(n)))

\* a well-formed command line with the opcode 'c' has been rejected
C17_Witness ==
    /\ DiffAnswered
    /\ lexIn = <<"c", "1", " ", "0", "1", "2", "\n">>
    /\ IsErr(lexOut.res)


NumAnswered == lexOut # None /\ lexOut.op = "parse_num"

\* s is digits ('.' digits)*: digits and dots only, a digit first and last,
\* no two dots in a row
IsNumText(s) ==
    /\ s # <<>>
    /\ \A k \in 1..Len(s) : is_digit(s[k]) \/ s[k] = "."
    /\ is_digit(s[1])
    /\ is_digit(s[Len(s)])
    /\ \A k \in 1..(Len(s) - 1) : ~(s[k] = "." /\ s[k + 1] = ".")

\* the length of the longest prefix of t that is digits ('.' digits)*, for
\* a text that begins with a digit
NumPrefixLen(t) ==
    CHOOSE k \in 1..Len(t) :
        /\ IsNumText(Take(t, k))
        /\ \A j \in (k + 1)..Len(t) : ~IsNumText(Take(t, j))

\* the digit groups of digits ('.' digits)*
RECURSIVE Groups(_)
Groups(s) ==
    IF \A k \in 1..Len(s) : s[k] # "." THEN <<s>>
    ELSE LET k == CHOOSE j \in 1..Len(s) : s[j] = "." /\ \A h \in 1..(j - 1) : s[h] # "."
         IN  <<Take(s, k - 1)>> \o Groups(Drop(s, k))

\* C18: on a text that begins with a digit, parse_num consumes the longest
\* prefix of the shape digits ('.' digits)* and returns its groups as
\* integers, in order (for groups that a u32 holds); a '.' with no digit
\* behind it stays in the remainder.  On a text that begins with no digit
\* it returns an error at the start of the text, labelled Num.
C18_NumLongestPrefix ==
    NumAnswered =>
        IF lexIn # <<>> /\ is_digit(Head(lexIn))
        THEN LET k == NumPrefixLen(lexIn)
                 groups == Groups(Take(lexIn, k))
             IN  (\A g \in 1..Len(groups) : FitsU32(groups[g])) =>
                     /\ Len(groups) >= 1
                     /\ lexOut.res =
                            Ok(Drop(lexIn, k),
                               Num([g \in 1..Len(groups) |-> ValueOf(groups[g])]))
        ELSE /\ IsErr(lexOut.res)
             /\ \A e \in 1..Len(lexOut.res.errors) : lexOut.res.errors[e].input = lexIn
             /\ lexOut.res.errors[Len(lexOut.res.errors)].code = Context("Num")

\* parse_num has read "1.\n": one group, the dot left in the remainder
C18_Witness ==
    /\ NumAnswered
    /\ lexIn = <<"1", ".", "\n">>
    /\ lexOut.res = Ok(<<".", "\n">>, Num(<<u32(1)>>))

-----------------------------------------------------------------------------
(* parse_rcs on documents whose admin block varies in the order of its    *)
(* clauses or in the whitespace between its tokens                         *)

ClauseNames ==
    <<"head", "branch", "access", "symbols", "locks", "strict", "integrity",
      "comment", "expand">>

\* the place of a clause in the grammar's order
Rank(c) == CHOOSE k \in 1..Len(ClauseNames) : ClauseNames[k] = c

\* head, access, symbols and locks are in every admin block
RequiredClauses == {"head", "access", "symbols", "locks"}
OptionalClauses == {"branch", "strict", "integrity", "comment", "expand"}

\* the clauses of S in the grammar's order
InOrder(S) == SelectSeq(ClauseNames, LAMBDA c : c \in S)

Swap(s, i, j) == [s EXCEPT ![i] = s[j], ![j] = s[i]]

\* the whitespace written after a keyword, before a ';', after a ';', and
\* on the left and on the right of a ':'
ValueGaps == {<<" ">>, <<"\n", "\t">>}
SemiGaps == {<<>>, <<" ">>, <<"\n", "\t">>}
ClauseGaps == {<<>>, <<"\n">>, <<" ", "\t">>}
ColonGaps == {<<>>, <<" ">>}

Layouts ==
    [value : ValueGaps, semi : SemiGaps, clause : ClauseGaps,
     left : ColonGaps, right : ColonGaps]

\* the layout rcs writes
CanonicalLayout ==
    [value |-> <<" ">>, semi |-> <<>>, clause |-> <<"\n">>, left |-> <<>>,
     right |-> <<>>]

\* a clause, from its keyword to its ';', in layout g
ClauseText(c, g) ==
    (CASE c = "head" -> kw_head \o g.value \o <<"1", ".", "1">>
       [] c = "branch" -> kw_branch \o g.value \o <<"1">>
       [] c = "access" -> kw_access \o g.value \o <<"u", "1">>
       [] c = "symbols" ->
              kw_symbols \o g.value \o <<"v", "1">> \o g.left \o <<":">>
              \o g.right \o <<"1", ".", "1">>
       [] c = "locks" ->
              kw_locks \o g.value \o <<"u", "1">> \o g.left \o <<":">>
              \o g.right \o <<"1", ".", "1">>
       [] c = "strict" -> kw_strict
       [] c = "integrity" -> kw_integrity \o g.value \o <<"@", "i", "@">>
       [] c = "comment" -> kw_comment \o g.value \o <<"@", "#", " ", "@">>
       [] c = "expand" -> kw_expand \o g.value \o <<"@", "k", "v", "@">>)
    \o g.semi \o <<";">> \o g.clause

RECURSIVE RenderClauses(_, _, _)
RenderClauses(cs, g, k) ==
    IF k > Len(cs) THEN <<>>
    ELSE ClauseText(cs[k], g) \o RenderClauses(cs, g, k + 1)

\* every choice of optional clauses, in the grammar's order or with two
\* clauses swapped, in the canonical layout
OrderDocs ==
    UNION {LET cs == InOrder(RequiredClauses \cup O)
           IN  {[clauses |-> Swap(cs, i, j), gaps |-> CanonicalLayout] :
                   i \in 1..Len(cs), j \in 1..Len(cs)} :
           O \in SUBSET OptionalClauses}

\* all nine clauses in the grammar's order, in every layout
LayoutDocs == {[clauses |-> ClauseNames, gaps |-> g] : g \in Layouts}

AdminDocs == OrderDocs \cup LayoutDocs

\* what follows the admin block: one delta header, desc, the head deltatext
FileTail ==
    BlockDelta(<<"1", ".", "1">>, 1) \o BlockDesc
    \o BlockHead(<<"1", ".", "1">>, 1) \o <<"\n">>

RenderAdminDoc(d) == RenderClauses(d.clauses, d.gaps, 1) \o FileTail

InitAdmin ==
    /\ doc \in AdminDocs
    /\ input = RenderAdminDoc(doc)
    /\ rest = input
    /\ pc = "admin"
    /\ rcsdata = None
    /\ deltas = <<>>
    /\ desc = <<>>
    /\ deltatexts = <<>>
    /\ result = None
    /\ NumIdle
    /\ LexIdle

SpecAdmin == InitAdmin /\ [][Next]_vars

\* two clauses of the block are in another order than the grammar's
Misordered(d) ==
    \E i \in 1..Len(d.clauses), j \in 1..Len(d.clauses) :
        i < j /\ Rank(d.clauses[i]) > Rank(d.clauses[j])

\* the first clause that stands behind a clause of a later place
FirstMisplaced(d) ==
    CHOOSE k \in 2..Len(d.clauses) :
        /\ Rank(d.clauses[k]) < Rank(d.clauses[k - 1])
        /\ \A h \in 2..(k - 1) : Rank(d.clauses[h]) > Rank(d.clauses[h - 1])

\* C19 as the specification states it: parse_admin returns a document only
\* for a block whose clauses are in the grammar's order; a block with two
\* clauses in another order is rejected by parse_admin.
C19_AdminRejectsMisordered ==
    (pc # "admin" /\ Misordered(doc)) => rcsdata = None

\* C19, amended: for a block with two clauses in another order, parse_admin
\* returns an error or reads the clauses before the first misplaced one and
\* leaves the input behind their last ';' unread; parse_rcs returns an error
\* for the file.
C19_MisorderedIsRejected ==
    Misordered(doc) =>
        /\ pc = "done" => IsErr(result)
        /\ pc = "deltas" =>
              rest = doc.gaps.clause
                     \o RenderClauses(doc.clauses, doc.gaps, FirstMisplaced(doc))
                     \o FileTail

\* comment before strict: parse_admin returned a document without the
\* strict flag, and parse_rcs an error
C19_Witness ==
    /\ doc.clauses = <<"head", "access", "symbols", "locks", "comment", "strict">>
    /\ pc = "done"
    /\ rcsdata # None
    /\ ~rcsdata.strict
    /\ IsErr(result)


\* what parse_admin returns for all nine clauses in the canonical layout
CanonicalAdmin == parse_admin(RenderClauses(ClauseNames, CanonicalLayout, 1)).val

\* C20: for the admin block of all nine clauses, whatever whitespace stands
\* between its tokens, parse_admin succeeds and head, symbols, locks and
\* strict are those of the canonical layout.
C20_LayoutInsignificant ==
    (doc.clauses = ClauseNames /\ pc # "admin") =>
        /\ rcsdata # None
        /\ rcsdata.head = CanonicalAdmin.head
        /\ rcsdata.symbols = CanonicalAdmin.symbols
        /\ rcsdata.locks = CanonicalAdmin.locks
        /\ rcsdata.strict = CanonicalAdmin.strict

-----------------------------------------------------------------------------
(* Further properties of parse_rcs *)

\* the parsed deltatexts carry pairwise distinct revision numbers
DistinctTexts ==
    \A j, k \in 1..Len(deltatexts) : j # k => deltatexts[j].num # deltatexts[k].num

\* the revision number of the first deltatext block of the file
FirstTextNum == parse_num(doc.texts[1]).val

\* C21: in a document parse_rcs returns, when the deltatexts carry pairwise
\* distinct revision numbers, exactly one delta has a Head text, the delta
\* under the number of the first deltatext block of the file, and the delta
\* of every later deltatext has a Diff text.
C21_OneHeadText ==
    (pc = "done" /\ IsOk(result) /\ DistinctTexts) =>
        LET m == result.val.deltas
        IN  /\ Cardinality({p \in 1..Len(m) : m[p].value.text.tag = "Head"}) = 1
            /\ \A p \in 1..Len(m) :
                  m[p].value.text.tag = "Head" <=> m[p].key = FirstTextNum
            /\ \A k \in 2..Len(deltatexts) :
                  DeltaOf(m, deltatexts[k].num).text.tag = "Diff"

\* a document came back with two deltas, the head text under the number of
\* the first deltatext and a diff under the other
C21_Witness ==
    /\ pc = "done"
    /\ IsOk(result)
    /\ Len(deltatexts) = 2
    /\ DistinctTexts
    /\ Len(result.val.deltas) = 2
    /\ DeltaOf(result.val.deltas, FirstTextNum).text.tag = "Head"
    /\ DeltaOf(result.val.deltas, deltatexts[2].num).text.tag = "Diff"

-----------------------------------------------------------------------------
(* Single calls of the value shapes and of the delta-header field parsers  *)
(* on clauses put together from a keyword, a payload, ';' and the          *)
(* whitespace between them; `doc` records the parts `lexIn` is made of.    *)

kw_num      == <<"n", "u", "m">>
kw_optional == <<"o", "p", "t", "i", "o", "n", "a", "l">>

FieldKeys ==
    {"date", "author", "state", "branches", "next", "commitid", "num",
     "optional", "none"}

KeyText(k) ==
    CASE k = "date" -> kw_date
      [] k = "author" -> kw_author
      [] k = "state" -> kw_state
      [] k = "branches" -> kw_branches
      [] k = "next" -> kw_next
      [] k = "commitid" -> kw_commitid
      [] k = "num" -> kw_num
      [] k = "optional" -> kw_optional
      [] k = "none" -> <<>>

\* payloads: none, a number (which is an id as well), an id that is no
\* number, two numbers
FieldPayloads ==
    {<<>>, <<"1", ".", "2">>, <<"x", "1">>, <<"é", "1">>,
     <<"1", ".", "2", " ", "1", ".", "3">>}

FieldClauses ==
    [kind : {"clause"},
     lead : {<<>>, <<" ">>, <<"\n", "\t">>},
     key : FieldKeys,
     gap : {<<>>, <<" ">>},
     payload : FieldPayloads,
     semi : {<<>>, <<" ">>},
     term : {<<>>, <<";">>},
     tail : {<<>>, <<"\n", "z">>}]

\* delta headers of revision 1.1 without state or next, with either
\* carrying no value or a value, with and without commitid
FieldHeaders ==
    [kind : {"header"},
     state : {"absent", "empty", "value"},
     next : {"absent", "empty", "value"},
     commitid : {"absent", "value"}]

FieldDocs == FieldClauses \cup FieldHeaders

RenderHeader(d) ==
    <<"\n", "1", ".", "1", "\n">> \o kw_date
    \o <<"\t", "2", "0", "2", "1", ".", "4", ".", "1", "0", ";", "\t">>
    \o kw_author \o <<" ", "u", "1", ";">>
    \o (CASE d.state = "absent" -> <<>>
          [] d.state = "empty" -> <<"\t">> \o kw_state \o <<";">>
          [] d.state = "value" -> <<"\t">> \o kw_state \o <<" ", "E", "x", "p", ";">>)
    \o <<"\n">> \o kw_branches \o <<";">>
    \o (CASE d.next = "absent" -> <<>>
          [] d.next = "empty" -> <<"\n">> \o kw_next \o <<"\t", ";">>
          [] d.next = "value" -> <<"\n">> \o kw_next \o <<"\t", "1", ".", "2", ";">>)
    \o (IF d.commitid = "value"
        THEN <<"\n">> \o kw_commitid \o <<" ", "a", "b", "c", ";">>
        ELSE <<>>)
    \o <<"\n">>

RenderField(d) ==
    IF d.kind = "header" THEN RenderHeader(d)
    ELSE d.lead \o KeyText(d.key) \o d.gap \o d.payload \o d.semi \o d.term \o d.tail

\* A faulty clause parser that requires the clause: C25 must tell it from
\* value_all_opt_id
value_required_id(i) == parse_value("context", kw_optional, parse_id, i)

\* parse_value_all_opt("context", "optional", parse_id)
value_all_opt_id(i) == parse_value_all_opt("context", kw_optional, parse_id, i)

\* parse_value("context", "num", parse_num)
value_num(i) == parse_value("context", kw_num, parse_num, i)

InitField ==
    /\ doc \in FieldDocs
    /\ lexIn = RenderField(doc)
    /\ lexOut = None
    /\ input = <<>>
    /\ rest = <<>>
    /\ pc = "idle"
    /\ rcsdata = None
    /\ deltas = <<>>
    /\ desc = <<>>
    /\ deltatexts = <<>>
    /\ result = None
    /\ NumIdle

\* value_num(lexIn)
CallValueNum ==
    /\ lexOut = None
    /\ lexOut' = [op |-> "parse_value", res |-> value_num(lexIn)]
    /\ UNCHANGED <<lexIn, rcsVars, numVars>>

\* value_all_opt_id(lexIn)
CallValueAllOpt ==
    /\ lexOut = None
    /\ lexOut' = [op |-> "parse_value_all_opt", res |-> value_all_opt_id(lexIn)]
    /\ UNCHANGED <<lexIn, rcsVars, numVars>>

\* parse_date(lexIn)
CallParseDate ==
    /\ lexOut = None
    /\ lexOut' = [op |-> "parse_date", res |-> parse_date(lexIn)]
    /\ UNCHANGED <<lexIn, rcsVars, numVars>>

\* parse_author(lexIn)
CallParseAuthor ==
    /\ lexOut = None
    /\ lexOut' = [op |-> "parse_author", res |-> parse_author(lexIn)]
    /\ UNCHANGED <<lexIn, rcsVars, numVars>>

\* parse_state(lexIn)
CallParseState ==
    /\ lexOut = None
    /\ lexOut' = [op |-> "parse_state", res |-> parse_state(lexIn)]
    /\ UNCHANGED <<lexIn, rcsVars, numVars>>

\* parse_branches(lexIn)
CallParseBranches ==
    /\ lexOut = None
    /\ lexOut' = [op |-> "parse_branches", res |-> parse_branches(lexIn)]
    /\ UNCHANGED <<lexIn, rcsVars, numVars>>

\* parse_next(lexIn)
CallParseNext ==
    /\ lexOut = None
    /\ lexOut' = [op |-> "parse_next", res |-> parse_next(lexIn)]
    /\ UNCHANGED <<lexIn, rcsVars, numVars>>

\* parse_commitid(lexIn)
CallParseCommitid ==
    /\ lexOut = None
    /\ lexOut' = [op |-> "parse_commitid", res |-> parse_commitid(lexIn)]
    /\ UNCHANGED <<lexIn, rcsVars, numVars>>

\* parse_delta(lexIn)
CallParseDelta ==
    /\ lexOut = None
    /\ lexOut' = [op |-> "parse_delta", res |-> parse_delta(lexIn)]
    /\ UNCHANGED <<lexIn, rcsVars, numVars>>

NextField ==
    \/ CallValueNum
    \/ CallValueAllOpt
    \/ CallParseDate
    \/ CallParseAuthor
    \/ CallParseState
    \/ CallParseBranches
    \/ CallParseNext
    \/ CallParseCommitid
    \/ CallParseDelta

SpecField == InitField /\ [][NextField]_vars

\* a parser has answered on a clause, on a header
Answered(op) == lexOut # None /\ lexOut.op = op
OnClause == doc.kind = "clause"
OnHeader == doc.kind = "header"


\* C22: the error a parser returns lists the primitive failure first, with
\* the input left where it failed, and then the names of the rules around
\* it from the innermost to the outermost, each with the input left where
\* that rule started; parse_value("context", "num", parse_num) on a payload
\* that is no number returns the failure of the digits, Num, context.
C22_ErrorsInnermostFirst ==
    (lexOut # None /\ IsErr(lexOut.res)) =>
        LET e == lexOut.res.errors
        IN  /\ Len(e) >= 2
            /\ e[1].code[1] = "Nom"
            /\ \A k \in 2..Len(e) : e[k].code[1] = "Context"
            /\ \A k \in 1..(Len(e) - 1) : IsSuffixOf(e[k].input, e[k + 1].input)
            /\ IsSuffixOf(e[Len(e)].input, lexIn)
            /\ (Answered("parse_value") /\ OnClause /\ doc.key = "num"
                  /\ doc.payload = <<"x", "1">>) =>
                  LET payload == Drop(lexIn, Len(doc.lead) + Len(kw_num) + Len(doc.gap))
                  IN  e = <<[input |-> payload, code |-> Nom("Digit")],
                            [input |-> payload, code |-> Context("Num")],
                            [input |-> lexIn, code |-> Context("context")]>>

\* parse_value("context", "num", parse_num) has failed on " num x1;"
C22_Witness ==
    /\ Answered("parse_value")
    /\ lexIn = <<" ", "n", "u", "m", " ", "x", "1", ";">>
    /\ IsErr(lexOut.res)
    /\ Len(lexOut.res.errors) = 3


\* C23: when the deltatexts are read, parse_rcs stands right behind the '@'
\* that ends the last of them; if "\n" or "\r\n" follows there it consumes
\* that one terminator and nothing of the document changes, otherwise it
\* returns an error; parse_rcs succeeds only from there, and returns what
\* follows the terminator as the remainder.
C23_LineTerminator ==
    [][ /\ pc = "line_ending" =>
              /\ input[Len(input) - Len(rest)] = "@"
              /\ UNCHANGED <<rcsdata, deltas, desc, deltatexts>>
              /\ IF StartsWith(rest, <<"\n">>)
                 THEN pc' = "build" /\ rest' = Drop(rest, 1)
                 ELSE IF StartsWith(rest, <<"\r", "\n">>)
                      THEN pc' = "build" /\ rest' = Drop(rest, 2)
                      ELSE pc' = "done" /\ IsErr(result') /\ rest' = rest
        /\ IsOk(result') =>
              /\ pc = "build"
              /\ result'.rest = rest
              /\ result'.val.desc = desc
      ]_vars

\* a document that ends with "\r\n" came back with nothing left over
C23_Witness ==
    /\ pc = "done"
    /\ IsOk(result)
    /\ doc.defect = "crlf"
    /\ result.rest = <<>>
    /\ Len(deltatexts) = 2


\* C24: every step of parse_rcs leaves of the input a suffix of what was
\* left before it, and parse_rcs ends with success or with an error.
C24_EndsOkOrError ==
    [][ /\ IsSuffixOf(rest', rest)
        /\ pc' = "done" => (IsOk(result') \/ IsErr(result'))
      ]_vars


\* C25: parse_value_all_opt never fails: on the complete clause, keyword,
\* one value and ';' with any whitespace between them, it returns Some of
\* the value and leaves what follows the ';'; on everything else (no
\* keyword, no value, two values, no ';') it returns None and leaves the
\* input as it was given.
C25_AllOptNeverFails ==
    Answered("parse_value_all_opt") =>
        IF /\ OnClause
           /\ doc.key = "optional"
           /\ doc.payload \in {<<"1", ".", "2">>, <<"x", "1">>, <<"é", "1">>}
           /\ doc.term = <<";">>
        THEN lexOut.res = Ok(doc.tail, <<doc.payload>>)
        ELSE lexOut.res = Ok(lexIn, <<>>)

\* " optional ;" has given None and is left as it was
C25_Witness ==
    /\ Answered("parse_value_all_opt")
    /\ lexIn = <<" ", "o", "p", "t", "i", "o", "n", "a", "l", " ", ";">>
    /\ lexOut.res = Ok(lexIn, <<>>)


\* a clause that follows whitespace and ends with ';': without a value, and
\* with the value v behind one space
EmptyClause(key) ==
    /\ OnClause
    /\ doc.lead # <<>>
    /\ doc.key = key
    /\ doc.payload = <<>>
    /\ doc.term = <<";">>
ValueClause(key, v) ==
    /\ OnClause
    /\ doc.lead # <<>>
    /\ doc.key = key
    /\ doc.gap = <<" ">>
    /\ doc.payload = v
    /\ doc.term = <<";">>

\* C26: behind whitespace, "state;" and "next;" parse to None, "state s;"
\* and "next n;" to Some of the value, and a text without the keyword is an
\* error of parse_state and of parse_next, while parse_commitid returns None
\* for it and consumes nothing; parse_delta returns an error for a header
\* without state or without next, and otherwise a delta whose state, next
\* and commitid are None or Some as the header has them.
C26_StateNextCommitid ==
    /\ Answered("parse_state") =>
          /\ EmptyClause("state") => lexOut.res = Ok(doc.tail, <<>>)
          /\ \A v \in {<<"x", "1">>, <<"é", "1">>, <<"1", ".", "2">>} :
                ValueClause("state", v) => lexOut.res = Ok(doc.tail, <<v>>)
          /\ (OnClause /\ doc.key # "state") => IsErr(lexOut.res)
    /\ Answered("parse_next") =>
          /\ EmptyClause("next") => lexOut.res = Ok(doc.tail, <<>>)
          /\ ValueClause("next", <<"1", ".", "2">>) =>
                lexOut.res = Ok(doc.tail, <<num(<<1, 2>>)>>)
          /\ (OnClause /\ doc.key # "next") => IsErr(lexOut.res)
    /\ Answered("parse_commitid") =>
          /\ (OnClause /\ doc.key # "commitid") => lexOut.res = Ok(lexIn, <<>>)
          /\ \A v \in {<<"x", "1">>, <<"é", "1">>} :
                ValueClause("commitid", v) => lexOut.res = Ok(doc.tail, <<v>>)
    /\ (Answered("parse_delta") /\ OnHeader) =>
          IF doc.state = "absent" \/ doc.next = "absent"
          THEN IsErr(lexOut.res)
          ELSE /\ IsOk(lexOut.res)
               /\ lexOut.res.rest = <<"\n">>
               /\ lexOut.res.val.state =
                     (IF doc.state = "empty" THEN <<>> ELSE <<<<"E", "x", "p">>>>)
               /\ lexOut.res.val.next =
                     (IF doc.next = "empty" THEN <<>> ELSE <<num(<<1, 2>>)>>)
               /\ lexOut.res.val.commitid =
                     (IF doc.commitid = "absent" THEN <<>> ELSE <<<<"a", "b", "c">>>>)

\* parse_delta has read a header with "state;", "next;" and no commitid
C26_Witness ==
    /\ Answered("parse_delta")
    /\ OnHeader
    /\ doc.state = "empty"
    /\ doc.next = "empty"
    /\ doc.commitid = "absent"
    /\ IsOk(lexOut.res)
    /\ lexOut.res.val.state = <<>>
    /\ lexOut.res.val.next = <<>>
    /\ lexOut.res.val.commitid = <<>>


\* where the malformed delta header of d starts in the rendered document,
\* and where it ends
BadHeaderStart(d) == Len(BlockAdmin) + LenDeltas(d, GoodHeaders(d))
BadHeaderEnd(d) ==
    BadHeaderStart(d)
    + Len(BlockDeltaBad(d.headers[Len(d.headers)], Len(d.headers)))

\* C27: for a document whose last delta header lacks its author clause,
\* parse_rcs returns an error that names the Delta rule and whose innermost
\* entry stands inside that header, behind its revision number.
C27_DeltaErrorReported ==
    (pc = "done" /\ doc.defect = "delta" /\ Len(doc.headers) > 0) =>
        /\ IsErr(result)
        /\ \E k \in 1..Len(result.errors) : result.errors[k].code = Context("Delta")
        /\ LET place == Len(input) - Len(result.errors[1].input)
           IN  /\ place > BadHeaderStart(doc) + Len(doc.headers[Len(doc.headers)])
               /\ place <= BadHeaderEnd(doc)


\* two parsers accept alike and, where they accept, return the same value
\* and the same remainder
SameAnswer(a, b) ==
    /\ a.kind = b.kind
    /\ IsOk(a) => (a.rest = b.rest /\ a.val = b.val)

\* C28: each field parser of the delta header answers as the value shape of
\* its kind with the same keyword and payload parser: date and author as
\* parse_value, state and next as parse_value_opt, branches as
\* parse_value_many0, commitid as parse_value_all_opt.
C28_FieldsAreShapes ==
    /\ Answered("parse_date") =>
          SameAnswer(lexOut.res, parse_value("Delta", kw_date, parse_num, lexIn))
    /\ Answered("parse_author") =>
          SameAnswer(lexOut.res, parse_value("Delta", kw_author, parse_id, lexIn))
    /\ Answered("parse_state") =>
          SameAnswer(lexOut.res, parse_value_opt("Delta", kw_state, parse_id, lexIn))
    /\ Answered("parse_next") =>
          SameAnswer(lexOut.res, parse_value_opt("Delta", kw_next, parse_num, lexIn))
    /\ Answered("parse_branches") =>
          SameAnswer(lexOut.res,
                     parse_value_many0("Delta", kw_branches, parse_num, lexIn))
    /\ Answered("parse_commitid") =>
          SameAnswer(lexOut.res,
                     parse_value_all_opt("Delta", kw_commitid, parse_sym, lexIn))

-----------------------------------------------------------------------------
(* Further properties of the Num operations *)

\* C29: get_branching_point returns a Num for every receiver of length 1 or
\* more, the empty Num for the lengths 1 and 2; for the empty receiver the
\* call panics and returns no value.
C29_BranchingPointOfShort ==
    (numOut # None /\ numOut.op = "get_branching_point") =>
        /\ Len(numA.numbers) >= 1 =>
              /\ DOMAIN numOut.val = {"numbers"}
              /\ Len(numOut.val.numbers) < Len(numA.numbers)
        /\ Len(numA.numbers) \in {1, 2} => numOut.val = Num(<<>>)
        /\ Len(numA.numbers) = 0 => numOut.val = Panic

\* get_branching_point has panicked on the empty Num
C29_Witness ==
    /\ numOut # None
    /\ numOut.op = "get_branching_point"
    /\ numA = Num(<<>>)
    /\ numOut.val = Panic

-----------------------------------------------------------------------------
(* The merge of deltatexts that share a revision number *)

\* the last parsed deltatext with the revision number n
LastTextOf(n) ==
    CHOOSE k \in 1..Len(deltatexts) :
        /\ deltatexts[k].num = n
        /\ \A j \in (k + 1)..Len(deltatexts) : deltatexts[j].num # n

\* C30: when the merge runs over deltatexts that all have a header, it
\* raises no error, and for deltatexts that share a revision number the
\* delta ends with the log and the text of the last of them; when the head
\* deltatext is one of them, the delta ends with the Diff text of the later
\* one.
C30_LastDeltatextWins ==
    [][ (pc = "build" /\ TextNums \subseteq HeaderNums) =>
          /\ IsOk(result')
          /\ \A j, k \in 1..Len(deltatexts) :
                (j < k /\ deltatexts[j].num = deltatexts[k].num) =>
                    LET n == deltatexts[j].num
                        d == DeltaOf(result'.val.deltas, n)
                    IN  /\ d.log = deltatexts[LastTextOf(n)].log
                        /\ d.text = deltatexts[LastTextOf(n)].text
                        /\ j = 1 => d.text.tag = "Diff"
      ]_vars

\* two deltatexts of one revision number were merged: the delta has the log
\* of the second and its Diff text, not the Head text of the first
C30_Witness ==
    /\ pc = "done"
    /\ IsOk(result)
    /\ Len(deltatexts) = 2
    /\ deltatexts[1].num = deltatexts[2].num
    /\ deltatexts[1].log # deltatexts[2].log
    /\ DeltaOf(result.val.deltas, deltatexts[1].num).log = deltatexts[2].log
    /\ DeltaOf(result.val.deltas, deltatexts[1].num).text.tag = "Diff"

=============================================================================
